---------------------------- MODULE Spec2Model ----------------------------
(***************************************************************************)
(* Model of the document-normalization and list-filtering logic of the     *)
(* jain-saint-locator application: the reference, instant and coordinate   *)
(* normalizers, the record assembly of the map and events screens, and     *)
(* the filter effects that derive the presented lists.                     *)
(*                                                                         *)
(* JavaScript values are tagged records: [t |-> "undefined"],              *)
(* [t |-> "null"], [t |-> "string", s |-> <<chars>>], ...  A string is a   *)
(* sequence of one-character strings.                                      *)
(***************************************************************************)
EXTENDS Integers, Sequences, FiniteSets, TLC

VARIABLES
  refIn, refOut, refDoc,     \* reference normalizer: input, extractId, formatDocRef
  tsIn, tsInstant,           \* instant normalizer: input, the instant it encodes
  tsSafe, tsOrNull,          \* results of toDateSafe and toDateOrNull
  coIn, coOut,               \* coordinate normalizer: input and result
  saintStore,                \* the "saint" collection: documents in snapshot order
  mapPc,                     \* MapScreen initial fetch: the await it is at
  userLocation,              \* MapScreen state
  allSaints, filteredSaints,
  searchQuery, distanceFilter,
  loading, errorMsg,
  filterDue,                 \* the filter effect of the last commit has not run yet
  addPc,                     \* submitNewSaint: idle, or the await it is at
  addClosure,                \* the form and userLocation of the render it was called in
  eventStore,                \* the "events" collection
  evPc,                      \* EventsScreen fetchEvents: the await it is at
  allEvents, filteredEvents, \* EventsScreen state
  selectedFilter, evSearchQuery, evLoading,
  evFilterDue,               \* the filter effect of the last commit has not run yet
  saintsList,                \* EventsScreen: the saints offered as hosts
  saintsPc,                  \* EventsScreen fetchSaints: the await it is at
  evTitle, evSaintId, evSaintName, evAddress,   \* the add-event form
  evLatitude, evLongitude, evDate,
  saintQuery, showSaintSuggestions,
  showDatePicker, showTimePicker,
  evAddPc,                   \* submitNewEvent: idle, or the await it is at
  evAddClosure,              \* the form values of the render it was called in
  notifPc,                   \* ProfileScreen mount effect: the await it is at
  signedIn,                  \* auth.currentUser is set
  switches,                  \* locationUpdates, eventReminders, newSaints
  storedSettings,            \* notificationSettings of the user document
  savingFlags,               \* savingLocation, savingEventReminders, savingNewSaints
  pendingSaves,              \* the updateDoc calls awaited, oldest first
  storedIsVolunteer,         \* isVolunteer of the user document
  showAuthModal,             \* ProfileScreen renders the AuthModal only
  authLoads,                 \* handleAuthSuccess: the calls at each of its awaits
  modalPc,                   \* AuthModal handler: idle, or the await it is at
  profileIsVolunteer,        \* isVolunteer of the ProfileScreen
  showVolunteerModal,
  volunteerPc,               \* handleVolunteerSubmit: idle, or the await it is at
  detailPc,                  \* SaintProfileScreen fetch effect: where it is
  detailId,                  \* the route parameter id
  detailLoading, detailSaint,  \* SaintProfileScreen state
  volPc,                     \* EventsScreen volunteer effects: where they are
  authUser,                  \* the user signed in, or none
  userDocs,                  \* the users collection
  isVolunteer, checkingVolunteer,
  pendingChecks              \* the getDoc calls of the volunteer checks awaited

refVars == <<refIn, refOut, refDoc>>
tsVars == <<tsIn, tsInstant, tsSafe, tsOrNull>>
coVars == <<coIn, coOut>>
mapVars == <<saintStore, mapPc, userLocation, allSaints, filteredSaints,
             searchQuery, distanceFilter, loading, errorMsg, filterDue,
             addPc, addClosure>>
evVars == <<eventStore, evPc, allEvents, filteredEvents, selectedFilter,
            evSearchQuery, evLoading, evFilterDue>>
formFields == <<evTitle, evSaintId, evSaintName, evAddress, evLatitude,
                evLongitude, evDate, saintQuery, showSaintSuggestions>>
pickerVars == <<showDatePicker, showTimePicker>>
formVars == <<saintsList, saintsPc, formFields, pickerVars, evAddPc,
              evAddClosure>>
volunteerVars == <<profileIsVolunteer, showVolunteerModal, volunteerPc>>
notifVars == <<notifPc, signedIn, switches, storedSettings, storedIsVolunteer,
               savingFlags, pendingSaves, showAuthModal, authLoads, modalPc,
               volunteerVars>>
detailVars == <<detailPc, detailId, detailLoading, detailSaint>>
volVars == <<volPc, authUser, userDocs, isVolunteer, checkingVolunteer,
             pendingChecks>>
sideVars == <<notifVars, detailVars, volVars>>
uiVars == <<formVars, sideVars>>
exceptNotifVars == <<refVars, tsVars, coVars, mapVars, evVars, formVars,
                     detailVars, volVars>>
exceptDetailVars == <<refVars, tsVars, coVars, mapVars, evVars, formVars,
                      notifVars, volVars>>
exceptVolVars == <<refVars, tsVars, coVars, mapVars, evVars, formVars,
                   notifVars, detailVars>>
vars == <<refVars, tsVars, coVars, mapVars, evVars, uiVars>>

---------------------------------------------------------------------------
(* JavaScript values *)

Undef == [t |-> "undefined"]
Null == [t |-> "null"]
Str(s) == [t |-> "string", s |-> s]
Pending == [t |-> "pending"]

IsNullish(v) == v.t \in {"undefined", "null"}

\* a ?? b
Coalesce(a, b) == IF IsNullish(a) THEN b ELSE a

\* o.k for an object modelled as [t |-> "object", f |-> [key -> value]]
Get(o, k) == IF o.t = "object" /\ k \in DOMAIN o.f THEN o.f[k] ELSE Undef

Obj(f) == [t |-> "object", f |-> f]

---------------------------------------------------------------------------
(* Strings *)

(* A string is the sequence of its UTF-16 code units, each a string of one  *)
(* character.  A control character is written with its escape, and a code  *)
(* unit that a module cannot hold is named by its escape \uXXXX, a string  *)
(* of six characters standing for the one unit.                            *)

(* The white space and line terminators of the language, which trim() and  *)
(* the class \s remove: U+0009 to U+000D, the space, U+00A0, U+1680,       *)
(* U+2000 to U+200A, U+2028, U+2029, U+202F, U+205F, U+3000 and U+FEFF.    *)
Whitespace ==
  {"\t", "\n", "", "\f", "\r", " ", " ", " ", "\\u2000", "\\u2001",
    "\\u2002", "\\u2003", "\\u2004", "\\u2005", "\\u2006", "\\u2007",
    "\\u2008", "\\u2009", "\\u200A", "\\u2028", "\\u2029", "\\u202F",
    "\\u205F", "\\u3000", "﻿" }

\* n zeros
Zeros(n) == <<>> \o [i \in 1..n |-> 0]

\* All sequences over alphabet A of length at most n.
SeqsUpTo(A, n) == UNION {[1..k -> A] : k \in 0..n}

\* String.prototype.startsWith for a one-character prefix
StartsWith(s, c) == Len(s) >= 1 /\ s[1] = c

\* String.prototype.slice(1)
Slice1(s) == SubSeq(s, 2, Len(s))

\* String.prototype.split(sep) for a one-character separator: the segments
\* between separators, empty segments included.
RECURSIVE SplitFrom(_, _, _, _)
SplitFrom(s, sep, i, cur) ==
  IF i > Len(s) THEN <<cur>>
  ELSE IF s[i] = sep THEN <<cur>> \o SplitFrom(s, sep, i + 1, <<>>)
  ELSE SplitFrom(s, sep, i + 1, Append(cur, s[i]))

Split(s, sep) == SplitFrom(s, sep, 1, <<>>)

\* parts[parts.length - 1] || fallback : the empty string is falsy
LastOr(parts, fallback) ==
  IF parts[Len(parts)] = <<>> THEN fallback ELSE Str(parts[Len(parts)])

---------------------------------------------------------------------------
(* Reference normalizer *)

\* Mutant: the object branch reads path before id.
extractId_PathFirst(value) ==
  IF value.t \in {"undefined", "null"} THEN Null
  ELSE IF value.t = "object" THEN
    IF Get(value, "path").t = "string"
      THEN LastOr(Split(Get(value, "path").s, "/"), Null)
    ELSE IF Get(value, "id").t = "string" /\ Len(Get(value, "id").s) > 0
      THEN Get(value, "id")
    ELSE Null
  ELSE IF value.t = "string" THEN
    LET trimmed == IF StartsWith(value.s, "/") THEN Slice1(value.s) ELSE value.s
    IN LastOr(Split(trimmed, "/"), Null)
  ELSE Null

\* extractId: object with string id, object with string path, plain string.
extractId(value) ==
  IF value.t \in {"undefined", "null"} THEN Null
  ELSE IF value.t = "object" THEN
    IF Get(value, "id").t = "string" /\ Len(Get(value, "id").s) > 0
      THEN Get(value, "id")
    ELSE IF Get(value, "path").t = "string"
      THEN LastOr(Split(Get(value, "path").s, "/"), Null)
    ELSE Null
  ELSE IF value.t = "string" THEN
    LET trimmed == IF StartsWith(value.s, "/") THEN Slice1(value.s) ELSE value.s
    IN LastOr(Split(trimmed, "/"), Null)
  ELSE Null

NotAvailable == [t |-> "notAvailable"]

\* formatDocRef of the saint screen: the id, or the text 'Not available'.
formatDocRef(value) ==
  IF value.t \in {"undefined", "null"} \/ value = Str(<<>>) THEN NotAvailable
  ELSE IF value.t = "object" /\ Get(value, "path").t = "string" THEN
    LastOr(Split(Get(value, "path").s, "/"), NotAvailable)
  ELSE IF value.t = "string" THEN
    LET trimmed == IF StartsWith(value.s, "/") THEN Slice1(value.s) ELSE value.s
    IN LastOr(Split(trimmed, "/"), NotAvailable)
  ELSE NotAvailable

---------------------------------------------------------------------------
(* Numbers and dates *)

(* A finite number is kept exactly in two limbs, value = hi*1000 + lo/10    *)
(* with hi an integer and lo in 0..9999, so that an epoch-millisecond value *)
(* has hi = whole seconds and lo = 10*milliseconds, and one fractional      *)
(* decimal digit is representable.  Every finite number of this form is     *)
(* inside the range of valid time values (|t| <= 8.64e15).                  *)
Fin(hi, lo) == [k |-> "fin", hi |-> hi, lo |-> lo]
NaN == [k |-> "nan", hi |-> 0, lo |-> 0]
Num(n) == [t |-> "number", n |-> n]
DateOf(tv) == [t |-> "date", tv |-> tv]

\* The number of an epoch instant of sec seconds and ms milliseconds.
Millis(sec, ms) == Fin(sec, ms * 10)

\* Magnitude limbs of a finite number: |value| = h*1000 + l/10.
MagHi(n) == IF n.hi >= 0 THEN n.hi ELSE IF n.lo = 0 THEN -n.hi ELSE -n.hi - 1
MagLo(n) == IF n.hi >= 0 \/ n.lo = 0 THEN n.lo ELSE 10000 - n.lo

RECURSIVE NumDigits(_)
NumDigits(i) == IF i < 10 THEN 1 ELSE 1 + NumDigits(i \div 10)

\* String(value).length for a number: sign, integer digits, and the
\* fraction with its point.
StringLength(n) ==
  IF n.k = "nan" THEN 3
  ELSE (IF n.hi < 0 THEN 1 ELSE 0)
       + (IF MagHi(n) > 0 THEN NumDigits(MagHi(n)) + 3
                          ELSE NumDigits(MagLo(n) \div 10))
       + (IF MagLo(n) % 10 # 0 THEN 2 ELSE 0)

RECURSIVE FloorLog2(_)
FloorLog2(i) == IF i < 2 THEN 0 ELSE 1 + FloorLog2(i \div 2)

RECURSIVE Pow2(_)
Pow2(k) == IF k = 0 THEN 1 ELSE 2 * Pow2(k - 1)

(* A product that binary floating point cannot give exactly: the double    *)
(* next to the integer hi*1000 + lo/10, one unit in the last place of      *)
(* 2^exp above it (ulps = 1) or below it (ulps = -1).                      *)
Off(hi, lo, ulps, exp) ==
  [k |-> "off", hi |-> hi, lo |-> lo, ulps |-> ulps, exp |-> exp]

(* value * 1000 in double arithmetic.  value = N/10 is first rounded to    *)
(* the nearest double x, 2^b <= |x| < 2^(b+1), with an error of r/5 of a   *)
(* unit in the last place, r = N * 2^(51-b) mod 5; the product is rounded  *)
(* again.  While |x| >= 1.024 * 2^b the product has eleven more binary     *)
(* digits before the point than x and the error of x is rounded away;      *)
(* below 1.024 * 2^b it has ten more, and an error of 2/5 of a unit moves  *)
(* the product by one unit in its last place, 2^(b-43).                    *)
Times1000(n) ==
  IF n.k = "nan" THEN NaN
  ELSE
    LET exact == Fin(n.hi * 1000 + (n.lo \div 10), (n.lo % 10) * 1000)
        whole == MagHi(n) * 1000 + (MagLo(n) \div 10)
        tenth == MagLo(n) % 10
        b == FloorLog2(whole)
        over == whole - Pow2(b)
        limit == 3 * (Pow2(b) \div 125) + ((3 * (Pow2(b) % 125)) \div 125)
        limitRest == (3 * (Pow2(b) % 125)) % 125
        narrow == over < limit \/ (over = limit /\ 25 * tenth < 2 * limitRest)
        r == (tenth * Pow2((51 - b) % 4)) % 5
        sign == IF n.hi < 0 THEN -1 ELSE 1
    IN IF tenth = 0 \/ whole = 0 \/ ~narrow \/ r \notin {2, 3} THEN exact
       ELSE Off(exact.hi, exact.lo, IF r = 2 THEN -sign ELSE sign, b - 43)

\* floor(log2 |n|) for a finite integer n # 0 kept in two limbs
RECURSIVE LimbLog2(_, _)
LimbLog2(h, l) ==
  IF h = 0 THEN FloorLog2(l)
  ELSE 1 + LimbLog2(h \div 2, ((h % 2) * 1000 + l) \div 2)

\* |n| is a power of two
RECURSIVE LimbIsPow2(_, _)
LimbIsPow2(h, l) ==
  IF h = 0 THEN Pow2(FloorLog2(l)) = l
  ELSE l % 2 = 0 /\ LimbIsPow2(h \div 2, ((h % 2) * 1000 + l) \div 2)

(* n + i for an integer i.  An inexact product keeps its distance from the *)
(* integer beside it while the sum has a double at that distance: the unit *)
(* in the last place of the sum is 2^(floor(log2 |sum|) - 52), half of     *)
(* that just below a power of two.  A smaller distance is rounded away.    *)
PlusInt(n, i) ==
  IF n.k = "nan" THEN NaN
  ELSE
    LET sum == Fin(n.hi + ((n.lo + i * 10) \div 10000), (n.lo + i * 10) % 10000)
        h == MagHi(sum)
        l == MagLo(sum) \div 10
        towardZero == (n.ulps = 1) = (sum.hi < 0)
        least == LimbLog2(h, l) - 52
                   - (IF towardZero /\ LimbIsPow2(h, l) THEN 1 ELSE 0)
    IN IF n.k = "fin" THEN sum
       ELSE IF (h = 0 /\ l = 0) \/ n.exp >= least
         THEN Off(sum.hi, sum.lo, n.ulps, n.exp)
       ELSE sum

(* Math.round(ns / 1_000_000): floor(ns / 1e6 + 1/2), which depends on     *)
(* floor(ns / 1000) = hi only; NaN for NaN.                                *)
RoundMillionth(ns) ==
  IF ns.k = "nan" THEN NaN
  ELSE Fin(((ns.hi + 500) \div 1000) \div 1000,
           (((ns.hi + 500) \div 1000) % 1000) * 10)

\* a + b for a number b that is an integer or NaN
Plus(a, b) ==
  IF a.k = "nan" \/ b.k = "nan" THEN NaN
  ELSE PlusInt(a, b.hi * 1000 + (b.lo \div 10))

\* new Date(ms): the time value is ms truncated toward zero; NaN stays NaN.
NewDate(ms) ==
  IF ms.k = "nan" THEN DateOf(NaN)
  ELSE IF ms.k = "off" THEN
    IF (ms.hi = 0 /\ ms.lo = 0) \/ (ms.ulps = 1) = (ms.hi >= 0)
      THEN DateOf(Fin(ms.hi, ms.lo))
      ELSE DateOf(PlusInt(Fin(ms.hi, ms.lo), ms.ulps))
  ELSE IF ms.k = "far" THEN DateOf(ms)
  ELSE IF ms.lo % 10 = 0 THEN DateOf(ms)
  ELSE IF ms.hi >= 0 THEN DateOf(Fin(ms.hi, (ms.lo \div 10) * 10))
  ELSE DateOf(PlusInt(Fin(ms.hi, (ms.lo \div 10) * 10), 1))

\* !isNaN(d.getTime())
ValidDate(d) == d.t = "date" /\ d.tv.k # "nan"

(* Date strings.  new Date(string) and Date.parse read a string as the      *)
(* engine's date parser does: first as a date-time string of the language   *)
(* ([+-yy]yyyy[-MM[-DD]][THH:mm[:ss[.sss]][Z|+-hh:mm]]), and what that      *)
(* leaves over token by token as a legacy date (month names, am/pm, time    *)
(* zone names, numbers in the order of day, time and zone).  A date-time    *)
(* without a zone is in local time; the zone of the process is UTC.         *)
LocalTZA == 0

DigitChars == <<"0", "1", "2", "3", "4", "5", "6", "7", "8", "9">>
IsDigit(c) == \E i \in 1..10 : DigitChars[i] = c
DigitVal(c) == (CHOOSE i \in 1..10 : DigitChars[i] = c) - 1

RECURSIVE DigitsVal(_, _, _)
DigitsVal(s, from, to) ==
  IF to < from THEN 0
  ELSE DigitsVal(s, from, to - 1) * 10 + DigitVal(s[to])

\* Days from 1970-01-01 to the civil date y-m-d (proleptic Gregorian).
DaysFromCivil(y, m, d) ==
  LET yy == IF m <= 2 THEN y - 1 ELSE y
      era == yy \div 400
      yoe == yy - era * 400
      mp == (m + 9) % 12
      doy == ((153 * mp + 2) \div 5) + d - 1
      doe == yoe * 365 + (yoe \div 4) - (yoe \div 100) + doy
  IN era * 146097 + doe - 719468

(* A time value outside the two limbs of Fin: day days and ms milliseconds  *)
(* from the epoch.                                                          *)
Far(day, ms) == [k |-> "far", day |-> day, ms |-> ms]

\* A composer field that is not set
kNone == -1

AsciiUpper ==
  <<"A", "B", "C", "D", "E", "F", "G", "H", "I", "J", "K", "L", "M", "N",
    "O", "P", "Q", "R", "S", "T", "U", "V", "W", "X", "Y", "Z">>
AsciiLower ==
  <<"a", "b", "c", "d", "e", "f", "g", "h", "i", "j", "k", "l", "m", "n",
    "o", "p", "q", "r", "s", "t", "u", "v", "w", "x", "y", "z">>

AsciiAlphaToLower(c) ==
  IF \E i \in 1..26 : AsciiUpper[i] = c
    THEN AsciiLower[CHOOSE i \in 1..26 : AsciiUpper[i] = c]
    ELSE c

\* The code units below 'A'
BelowAlpha ==
  {"\\u0000", "\\u0001", "\\u0002", "\\u0003", "\\u0004", "\\u0005",
   "\\u0006", "\\u0007", "\\u0008", "\t", "\n", "", "\f", "\r",
   "\\u000E", "\\u000F", "\\u0010", "\\u0011", "\\u0012", "\\u0013",
   "\\u0014", "\\u0015", "\\u0016", "\\u0017", "\\u0018", "\\u0019",
   "\\u001A", "\\u001B", "\\u001C", "\\u001D", "\\u001E", "\\u001F",
   " ", "!", "\"", "#", "$", "%", "&", "'", "(", ")", "*", "+", ",", "-",
   ".", "/", "0", "1", "2", "3", "4", "5", "6", "7", "8", "9", ":", ";",
   "<", "=", ">", "?", "@"}

\* The line and paragraph separators, which the scanner reads as characters
\* of a word: a word holds every character from 'A' on that is no white space
LineSeparators == {"\\u2028", "\\u2029"}

(* The class of a character for the tokenizer: a digit, a symbol, a        *)
(* character of a word, white space, an opening parenthesis or another.     *)
CharClass(c) ==
  IF IsDigit(c) THEN "digit"
  ELSE IF c \in {":", "-", "+", ".", ")"} THEN "symbol"
  ELSE IF c \notin BelowAlpha
    THEN (IF c \in Whitespace \ LineSeparators THEN "space" ELSE "word")
  ELSE IF c \in Whitespace THEN "space"
  ELSE IF c = "(" THEN "paren"
  ELSE "other"

\* c is a character of the class; the class "zero" holds the digit 0
InClass(c, class) == IF class = "zero" THEN c = "0" ELSE CharClass(c) = class

\* The first position from pos on that does not hold a character of class
RECURSIVE RunEnd(_, _, _)
RunEnd(s, pos, class) ==
  IF pos > Len(s) \/ ~InClass(s[pos], class) THEN pos
  ELSE RunEnd(s, pos + 1, class)

(* The number of the digits s[from..to-1]: leading zeros are skipped and    *)
(* the first nine digits after them are read.                               *)
NumeralFrom(s, first, to) ==
  DigitsVal(s, first, IF to - first > 9 THEN first + 8 ELSE to - 1)
ReadUnsignedNumeral(s, from, to) ==
  NumeralFrom(s, RunEnd(SubSeq(s, 1, to - 1), from, "zero"), to)

\* The keywords: the first three letters, the type and the value
KeywordTable ==
  << <<"j", "a", "n", "MONTH_NAME", 1>>,
     <<"f", "e", "b", "MONTH_NAME", 2>>,
     <<"m", "a", "r", "MONTH_NAME", 3>>,
     <<"a", "p", "r", "MONTH_NAME", 4>>,
     <<"m", "a", "y", "MONTH_NAME", 5>>,
     <<"j", "u", "n", "MONTH_NAME", 6>>,
     <<"j", "u", "l", "MONTH_NAME", 7>>,
     <<"a", "u", "g", "MONTH_NAME", 8>>,
     <<"s", "e", "p", "MONTH_NAME", 9>>,
     <<"o", "c", "t", "MONTH_NAME", 10>>,
     <<"n", "o", "v", "MONTH_NAME", 11>>,
     <<"d", "e", "c", "MONTH_NAME", 12>>,
     <<"a", "m", "", "AM_PM", 0>>,
     <<"p", "m", "", "AM_PM", 12>>,
     <<"u", "t", "", "TIME_ZONE_NAME", 0>>,
     <<"u", "t", "c", "TIME_ZONE_NAME", 0>>,
     <<"z", "", "", "TIME_ZONE_NAME", 0>>,
     <<"g", "m", "t", "TIME_ZONE_NAME", 0>>,
     <<"c", "d", "t", "TIME_ZONE_NAME", -5>>,
     <<"c", "s", "t", "TIME_ZONE_NAME", -6>>,
     <<"e", "d", "t", "TIME_ZONE_NAME", -4>>,
     <<"e", "s", "t", "TIME_ZONE_NAME", -5>>,
     <<"m", "d", "t", "TIME_ZONE_NAME", -6>>,
     <<"m", "s", "t", "TIME_ZONE_NAME", -7>>,
     <<"p", "d", "t", "TIME_ZONE_NAME", -7>>,
     <<"p", "s", "t", "TIME_ZONE_NAME", -8>>,
     <<"t", "", "", "TIME_SEPARATOR", 0>> >>

(* A token: its type, the symbol or the keyword type, the number or the     *)
(* keyword value, its length and the position after it.                     *)
DateToken(type, sub, value, length, next) ==
  [type |-> type, sub |-> sub, value |-> value, length |-> length,
   next |-> next]

(* The keyword of a word of the given length with the first three letters   *)
(* pre, in lower case: the rows of the table that begin like it; a word of  *)
(* more than three letters is a keyword only as the name of a month.        *)
KeywordOf(table, pre, length, next) ==
  LET hit(i) == /\ \A j \in 1..3 : table[i][j] = pre[j]
                /\ (length <= 3 \/ table[i][4] = "MONTH_NAME")
      row == table[CHOOSE i \in 1..Len(table) : hit(i)]
  IN IF \E i \in 1..Len(table) : hit(i)
       THEN DateToken("keyword", row[4], row[5], length, next)
       ELSE DateToken("keyword", "INVALID", 0, length, next)

Lookup(s, pos, length, next) ==
  KeywordOf(KeywordTable,
            [j \in 1..3 |->
               IF j <= length THEN AsciiAlphaToLower(s[pos + j - 1]) ELSE ""],
            length, next)

\* The position after the parenthesized text that starts at pos
SkipParentheses(s, pos) ==
  LET opened(e) == Cardinality({i \in pos..e : s[i] = "("})
      closed(e) == Cardinality({i \in pos..e : s[i] = ")"})
      balanced(e) == opened(e) = closed(e)
  IN IF \E e \in pos..Len(s) : balanced(e)
       THEN 1 + CHOOSE e \in pos..Len(s) :
                  balanced(e) /\ \A f \in pos..(e - 1) : ~balanced(f)
       ELSE Len(s) + 1

\* The token of the class that starts at pos and ends before next
ScanRun(s, pos, class, next) ==
  IF class = "digit"
    THEN DateToken("number", "", ReadUnsignedNumeral(s, pos, next), next - pos,
                   next)
  ELSE IF class = "symbol" THEN DateToken("symbol", s[pos], 0, 1, pos + 1)
  ELSE IF class = "word" THEN Lookup(s, pos, next - pos, next)
  ELSE IF class = "space" THEN DateToken("space", "", 0, 1, pos + 1)
  ELSE IF class = "paren"
    THEN DateToken("unknown", "", 0, 0, SkipParentheses(s, pos))
  ELSE DateToken("unknown", "", 0, 0, pos + 1)

ScanClass(s, pos, class) == ScanRun(s, pos, class, RunEnd(s, pos, class))

\* The token that starts at pos
Scan(s, pos) ==
  IF pos > Len(s) THEN DateToken("end", "", 0, 0, pos)
  ELSE ScanClass(s, pos, CharClass(s[pos]))

\* The tokens of s from pos on after the tokens acc, the end of input last
RECURSIVE Tokens(_, _, _)
TokensWith(s, acc, t) ==
  IF t.type = "end" THEN Append(acc, t) ELSE Tokens(s, t.next, Append(acc, t))
Tokens(s, pos, acc) == TokensWith(s, acc, Scan(s, pos))

\* The token at index i of the tokens ts; the end of input has no end
TokenAt(ts, i) == ts[IF i > Len(ts) THEN Len(ts) ELSE i]

IsNumberToken(t) == t.type = "number"
IsFixedNumber(t, n) == t.type = "number" /\ t.length = n
IsSymbol(t, c) == t.type = "symbol" /\ t.sub = c
IsAsciiSign(t) == t.type = "symbol" /\ t.sub \in {"+", "-"}
AsciiSign(t) == IF t.sub = "-" THEN -1 ELSE 1
IsKeywordType(t, type) == t.type = "keyword" /\ t.sub = type
IsKeywordZ(t) == IsKeywordType(t, "TIME_ZONE_NAME") /\ t.length = 1

IsMonth(n) == n \in 1..12
IsDay(n) == n \in 1..31
IsHour(n) == n \in 0..23
IsHour12(n) == n \in 0..12
IsMinute(n) == n \in 0..59
IsSecond(n) == n \in 0..59
IsMillisecond(n) == n \in 0..999

RECURSIVE TenTo(_)
TenTo(n) == IF n = 0 THEN 1 ELSE 10 * TenTo(n - 1)

(* The milliseconds of the digits after the point: one or two digits are    *)
(* padded, more than three are cut.                                         *)
ReadMilliseconds(t) ==
  IF t.length = 1 THEN t.value * 100
  ELSE IF t.length = 2 THEN t.value * 10
  ELSE IF t.length > 9 THEN t.value \div TenTo(6)
  ELSE IF t.length > 3 THEN t.value \div TenTo(t.length - 3)
  ELSE t.value

(* The composers: the day components and the named month, the time          *)
(* components and the am/pm offset, the sign, hour and minute of the zone.  *)
EmptyComposers ==
  [day |-> <<>>, named |-> kNone, iso |-> FALSE,
   time |-> <<>>, hourOffset |-> kNone,
   sign |-> 0, hour |-> kNone, minute |-> kNone]

DayAdd(c, n) == [c EXCEPT !.day = Append(c.day, n)]
TimeAdd(c, n) ==
  IF Len(c.time) < 4 THEN [c EXCEPT !.time = Append(c.time, n)] ELSE c
TimeAddFinal(c, n) ==
  IF Len(c.time) < 4
    THEN [c EXCEPT !.time = Append(c.time, n) \o Zeros(3 - Len(c.time))]
    ELSE c
TimeIsExpecting(c, n) ==
  \/ Len(c.time) = 1 /\ IsMinute(n)
  \/ Len(c.time) = 2 /\ IsSecond(n)
  \/ Len(c.time) = 3 /\ IsMillisecond(n)
TzSet(c, hours) ==
  [c EXCEPT !.sign = IF hours < 0 THEN -1 ELSE 1,
            !.hour = IF hours < 0 THEN -hours ELSE hours,
            !.minute = 0]
TzIsExpecting(c, n) == c.hour # kNone /\ c.minute = kNone /\ IsMinute(n)
TzIsUTC(c) == c.hour = 0 /\ c.minute = 0

(* What a parser hands on: a token, the index pos of the token after it     *)
(* and the composers.                                                       *)
Handed(token, pos, c) == [token |-> token, pos |-> pos, c |-> c]
InvalidToken == DateToken("invalid", "", 0, 0, 0)

(* The end of a date-time string: the end of input must be the token at     *)
(* index pos.                                                               *)
ES5End(ts, pos, c) ==
  IF TokenAt(ts, pos).type = "end"
    THEN Handed(TokenAt(ts, pos), pos, [c EXCEPT !.iso = TRUE])
    ELSE Handed(InvalidToken, pos, c)

\* The optional zone of a date-time string, 'Z' or +-hh:mm, and the end
ES5TimeZone(ts, pos, c) ==
  LET t == TokenAt(ts, pos)
      hh == TokenAt(ts, pos + 1)
      colon == TokenAt(ts, pos + 2)
      mm == TokenAt(ts, pos + 3)
      signed == [c EXCEPT !.sign = IF t.sub = "+" THEN 1 ELSE -1]
      none == Handed(InvalidToken, pos, c)
  IN IF IsKeywordZ(t) THEN ES5End(ts, pos + 1, TzSet(c, 0))
     ELSE IF ~IsAsciiSign(t) THEN ES5End(ts, pos, c)
     ELSE IF IsFixedNumber(hh, 4) THEN
       IF IsHour(hh.value \div 100) /\ IsMinute(hh.value % 100)
         THEN ES5End(ts, pos + 2, [signed EXCEPT !.hour = hh.value \div 100,
                                                 !.minute = hh.value % 100])
         ELSE none
     ELSE IF ~IsFixedNumber(hh, 2) \/ ~IsHour(hh.value) THEN none
     ELSE IF ~IsSymbol(colon, ":") THEN none
     ELSE IF ~IsFixedNumber(mm, 2) \/ ~IsMinute(mm.value) THEN none
     ELSE ES5End(ts, pos + 4, [signed EXCEPT !.hour = hh.value,
                                             !.minute = mm.value])

(* The optional time of a date-time string, 'T'HH:mm[:ss[.sss]]; 24:00 is   *)
(* allowed with nothing but zeros after it.  A date without a time and      *)
(* without a zone is in UTC.                                                *)
ES5Time(ts, pos, c) ==
  LET t == TokenAt(ts, pos)
      hh == TokenAt(ts, pos + 1)
      colon1 == TokenAt(ts, pos + 2)
      mm == TokenAt(ts, pos + 3)
      colon2 == TokenAt(ts, pos + 4)
      ss == TokenAt(ts, pos + 5)
      point == TokenAt(ts, pos + 6)
      sss == TokenAt(ts, pos + 7)
      is24 == hh.value = 24
      none == Handed(InvalidToken, pos, c)
  IN IF ~IsKeywordType(t, "TIME_SEPARATOR") THEN
       IF t.type # "end" THEN Handed(t, pos + 1, c)
       ELSE Handed(t, pos, [TzSet(c, 0) EXCEPT !.iso = TRUE])
     ELSE IF ~IsFixedNumber(hh, 2) \/ hh.value \notin 0..24 THEN none
     ELSE IF ~IsSymbol(colon1, ":") THEN none
     ELSE IF ~IsFixedNumber(mm, 2) \/ ~IsMinute(mm.value)
             \/ (is24 /\ mm.value > 0) THEN none
     ELSE IF ~IsSymbol(colon2, ":")
       THEN ES5TimeZone(ts, pos + 4,
                        [c EXCEPT !.time = <<hh.value, mm.value>>])
     ELSE IF ~IsFixedNumber(ss, 2) \/ ~IsSecond(ss.value)
             \/ (is24 /\ ss.value > 0) THEN none
     ELSE IF ~IsSymbol(point, ".")
       THEN ES5TimeZone(ts, pos + 6,
                        [c EXCEPT !.time = <<hh.value, mm.value, ss.value>>])
     ELSE IF ~IsNumberToken(sss) \/ (is24 /\ sss.value > 0) THEN none
     ELSE ES5TimeZone(ts, pos + 8,
                      [c EXCEPT !.time = <<hh.value, mm.value, ss.value,
                                           ReadMilliseconds(sss)>>])

\* The optional month and day of a date-time string, [-MM[-DD]]
ES5MonthDay(ts, pos, c) ==
  LET dash1 == TokenAt(ts, pos)
      mm == TokenAt(ts, pos + 1)
      dash2 == TokenAt(ts, pos + 2)
      dd == TokenAt(ts, pos + 3)
      month == DayAdd(c, mm.value)
  IN IF ~IsSymbol(dash1, "-") THEN ES5Time(ts, pos, c)
     ELSE IF ~IsFixedNumber(mm, 2) \/ ~IsMonth(mm.value)
       THEN Handed(mm, pos + 2, c)
     ELSE IF ~IsSymbol(dash2, "-") THEN ES5Time(ts, pos + 2, month)
     ELSE IF ~IsFixedNumber(dd, 2) \/ ~IsDay(dd.value)
       THEN Handed(dd, pos + 4, month)
     ELSE ES5Time(ts, pos + 4, DayAdd(month, dd.value))

(* A date-time string as far as it goes: the end of input when all of the   *)
(* tokens ts are one, the invalid token when they go wrong after the 'T',   *)
(* and else the first token that is left to the legacy parser.              *)
ParseES5DateTime(ts) ==
  LET t == TokenAt(ts, 1)
      yyyyyy == TokenAt(ts, 2)
  IN IF IsAsciiSign(t) THEN
       IF ~IsFixedNumber(yyyyyy, 6) THEN Handed(t, 2, EmptyComposers)
       ELSE IF AsciiSign(t) < 0 /\ yyyyyy.value = 0
         THEN Handed(DateToken("unknown", "", 0, 0, yyyyyy.next), 3,
                     EmptyComposers)
       ELSE ES5MonthDay(ts, 3,
                        DayAdd(EmptyComposers, AsciiSign(t) * yyyyyy.value))
     ELSE IF IsFixedNumber(t, 4)
       THEN ES5MonthDay(ts, 2, DayAdd(EmptyComposers, t.value))
     ELSE Handed(t, 2, EmptyComposers)

(* One token of a legacy date.  l holds the composers c, the index pos of   *)
(* the token after the token, whether a number has been read, and ok.       *)
LegacyState(ok, pos, c, read) == [ok |-> ok, pos |-> pos, c |-> c, read |-> read]

LegacyNumber(ts, token, l) ==
  LET n == token.value
      c == l.c
      peek == TokenAt(ts, l.pos)
      after == TokenAt(ts, l.pos + 1)
      dotted == IsSymbol(peek, ".")
      rest == IF dotted THEN l.pos + 1 ELSE l.pos
      follow == TokenAt(ts, rest)
      failed == LegacyState(FALSE, l.pos, c, TRUE)
  IN IF IsSymbol(peek, ":") THEN
       IF IsSymbol(after, ":") THEN
         IF c.time # <<>> THEN failed
         ELSE LegacyState(TRUE, l.pos + 2, [c EXCEPT !.time = <<n, 0>>], TRUE)
       ELSE IF Len(c.time) >= 4 THEN failed
       ELSE LegacyState(TRUE, IF IsSymbol(after, ".") THEN l.pos + 2
                                                       ELSE l.pos + 1,
                        TimeAdd(c, n), TRUE)
     ELSE IF dotted /\ TimeIsExpecting(c, n) THEN
       IF ~IsNumberToken(follow) THEN failed
       ELSE LegacyState(TRUE, rest + 1,
                        TimeAddFinal(TimeAdd(c, n), ReadMilliseconds(follow)),
                        TRUE)
     ELSE IF TzIsExpecting(c, n)
       THEN LegacyState(TRUE, rest, [c EXCEPT !.minute = n], TRUE)
     ELSE IF TimeIsExpecting(c, n) THEN
       IF follow.type \in {"end", "space"} \/ IsKeywordZ(follow)
            \/ IsAsciiSign(follow)
         THEN LegacyState(TRUE, rest, TimeAddFinal(c, n), TRUE)
         ELSE failed
     ELSE IF Len(c.day) >= 3 THEN failed
     ELSE LegacyState(TRUE, IF IsSymbol(follow, "-") THEN rest + 1 ELSE rest,
                      DayAdd(c, n), TRUE)

LegacyKeyword(ts, token, l) ==
  LET c == l.c
      peek == TokenAt(ts, l.pos)
  IN IF token.sub = "AM_PM" /\ c.time # <<>>
       THEN [l EXCEPT !.c = [c EXCEPT !.hourOffset = token.value]]
     ELSE IF token.sub = "MONTH_NAME"
       THEN [l EXCEPT !.c = [c EXCEPT !.named = token.value],
                      !.pos = IF IsSymbol(peek, "-") THEN l.pos + 1 ELSE l.pos]
     ELSE IF token.sub = "TIME_ZONE_NAME" /\ l.read
       THEN [l EXCEPT !.c = TzSet(c, token.value)]
     ELSE IF l.read \/ IsNumberToken(peek) THEN [l EXCEPT !.ok = FALSE]
     ELSE l

\* A UTC offset after UTC or after a time: a sign and an optional number
LegacyOffset(ts, token, l) ==
  LET peek == TokenAt(ts, l.pos)
      numbered == IsNumberToken(peek)
      n == IF numbered THEN peek.value ELSE 0
      length == IF numbered THEN peek.length ELSE 0
      pos == IF numbered THEN l.pos + 1 ELSE l.pos
      signed == [l.c EXCEPT !.sign = AsciiSign(token)]
  IN IF IsSymbol(TokenAt(ts, pos), ":")
       THEN LegacyState(TRUE, pos, [signed EXCEPT !.hour = n,
                                                  !.minute = kNone], TRUE)
     ELSE IF length \in {1, 2}
       THEN LegacyState(TRUE, pos, [signed EXCEPT !.hour = n, !.minute = 0],
                        TRUE)
     ELSE IF length \in {3, 4}
       THEN LegacyState(TRUE, pos, [signed EXCEPT !.hour = n \div 100,
                                                  !.minute = n % 100], TRUE)
     ELSE LegacyState(FALSE, pos, signed, TRUE)

LegacyToken(ts, token, l) ==
  IF IsNumberToken(token) THEN LegacyNumber(ts, token, l)
  ELSE IF token.type = "keyword" THEN LegacyKeyword(ts, token, l)
  ELSE IF IsAsciiSign(token) /\ (TzIsUTC(l.c) \/ l.c.time # <<>>)
    THEN LegacyOffset(ts, token, l)
  ELSE IF (IsAsciiSign(token) \/ IsSymbol(token, ")")) /\ l.read
    THEN [l EXCEPT !.ok = FALSE]
  ELSE l

\* The tokens from token on, one after the other
RECURSIVE LegacyTokens(_, _, _)
LegacyNext(ts, step) ==
  IF ~step.ok THEN step
  ELSE LegacyTokens(ts, TokenAt(ts, step.pos), [step EXCEPT !.pos = step.pos + 1])
LegacyTokens(ts, token, l) ==
  IF ~l.ok \/ token.type = "end" THEN l
  ELSE LegacyNext(ts, LegacyToken(ts, token, l))

\* The year, month and day of the day composer, <<>> when it holds no day
DayWrite(c) ==
  LET comp == c.day \o [i \in 1..(3 - Len(c.day)) |-> 1]
      ymd == IF c.named = kNone THEN
               IF c.iso \/ ~IsDay(comp[1]) THEN comp
               ELSE <<comp[3], comp[1], comp[2]>>
             ELSE IF ~IsDay(comp[1]) THEN <<comp[1], c.named, comp[2]>>
             ELSE <<comp[2], c.named, comp[1]>>
      year == IF c.iso THEN ymd[1]
              ELSE IF ymd[1] \in 0..49 THEN ymd[1] + 2000
              ELSE IF ymd[1] \in 50..99 THEN ymd[1] + 1900
              ELSE ymd[1]
  IN IF c.day = <<>> \/ ~IsMonth(ymd[2]) \/ ~IsDay(ymd[3]) THEN <<>>
     ELSE <<year, ymd[2], ymd[3]>>

\* The hour, minute, second and millisecond of the time composer, or <<>>
TimeWrite(c) ==
  LET comp == c.time \o Zeros(4 - Len(c.time))
      hour == IF c.hourOffset = kNone THEN comp[1]
              ELSE (comp[1] % 12) + c.hourOffset
  IN IF c.hourOffset # kNone /\ ~IsHour12(comp[1]) THEN <<>>
     ELSE IF IsHour(hour) /\ IsMinute(comp[2]) /\ IsSecond(comp[3])
             /\ IsMillisecond(comp[4])
       THEN <<hour, comp[2], comp[3], comp[4]>>
     ELSE IF hour = 24 /\ comp[2] = 0 /\ comp[3] = 0 /\ comp[4] = 0
       THEN <<hour, 0, 0, 0>>
     ELSE <<>>

(* The offset of the zone composer in seconds: <<offset>>, <<>> when the    *)
(* seconds, counted in 32 bits, are above 2^31 - 1.  No sign is local time. *)
TzWrite(c) ==
  LET hour == IF c.hour = kNone THEN 0 ELSE c.hour
      minute == IF c.minute = kNone THEN 0 ELSE c.minute
      low == (hour % 65536) * 3600 + (minute % 65536) * 60
      high == ((hour \div 65536) * 3600 + (minute \div 65536) * 60
                 + (low \div 65536)) % 65536
      seconds == high * 65536 + (low % 65536)
  IN IF c.sign = 0 THEN <<LocalTZA>>
     ELSE IF high >= 32768 THEN <<>>
     ELSE <<c.sign * seconds>>

(* MakeDate(MakeDay(y, mo, d), MakeTime(h, mi, sec, ms)) less the offset,   *)
(* clipped to the range of time values                                      *)
TimeValue(ymd, hms, offset) ==
  LET days == DaysFromCivil(ymd[1], ymd[2], 1) + ymd[3] - 1
               - (offset \div 86400)
      secs == hms[1] * 3600 + hms[2] * 60 + hms[3] - (offset % 86400)
      day == days + (secs \div 86400)
      sec == secs % 86400
  IN IF ymd[1] < -1000000 \/ ymd[1] > 1000000 THEN NaN
     ELSE IF day < -100000000 \/ day > 100000000
             \/ (day = 100000000 /\ (sec > 0 \/ hms[4] > 0)) THEN NaN
     ELSE IF day \in -24855..24854 \/ (day = 24855 /\ sec <= 11647)
       THEN Millis(day * 86400 + sec, hms[4])
     ELSE Far(day, sec * 1000 + hms[4])

\* The time value of the composers' day, time and zone, NaN without one
DateOfFields(ymd, hms, offset) ==
  IF ymd = <<>> \/ hms = <<>> \/ offset = <<>> THEN NaN
  ELSE TimeValue(ymd, hms, offset[1])

\* The time value of what the legacy parser leaves
DateOfLegacy(l) ==
  IF ~l.ok THEN NaN ELSE DateOfFields(DayWrite(l.c), TimeWrite(l.c), TzWrite(l.c))

(* The time value of the tokens ts, of which the date-time parser has read  *)
(* its part es5                                                             *)
DateOfTokens(ts, es5) ==
  IF es5.token.type = "invalid" THEN NaN
  ELSE DateOfLegacy(LegacyTokens(ts, es5.token,
                                 LegacyState(TRUE, es5.pos, es5.c,
                                             es5.c.day # <<>>)))

DateAfterES5(ts) == DateOfTokens(ts, ParseES5DateTime(ts))

\* The input the parser reads of s: its reader takes the code unit 0 for the
\* end of the input, so s ends for it before the first U+0000
InputOf(s) ==
  IF \E i \in 1..Len(s) : s[i] = "\\u0000"
    THEN SubSeq(s, 1, (CHOOSE i \in 1..Len(s) :
                         s[i] = "\\u0000"
                           /\ \A j \in 1..(i - 1) : s[j] # "\\u0000") - 1)
    ELSE s

\* Date.parse(s) as a number
DateParse(s) == DateAfterES5(Tokens(InputOf(s), 1, <<>>))

---------------------------------------------------------------------------
(* Instant normalizer *)

\* A function-valued member: calling it throws or returns ret.
Fn(ret) == [t |-> "function", ret |-> ret]
Throws == [t |-> "throw"]

SecondsDigits == 10

\* Mutant: the number branch never scales seconds to milliseconds.
NumberMs_NeverScaled(n) == n

\* The number branch: String(value).length === 10 ? value * 1000 : value
NumberMs(n) == IF StringLength(n) = SecondsDigits THEN Times1000(n) ELSE n

\* The { seconds, nanoseconds } branch:
\* value.seconds * 1000 + Math.round(ns / 1_000_000), ns defaulting to 0
SecondsMs(value) ==
  LET ns == IF Get(value, "nanoseconds").t = "number"
              THEN Get(value, "nanoseconds").n ELSE Fin(0, 0)
  IN Plus(Times1000(Get(value, "seconds").n), RoundMillionth(ns))

\* Mutant: a date is returned without the validity test.
DateOrNull_Unchecked(d) == d

\* d, or null when the date is invalid
DateOrNull(d) == IF ValidDate(d) THEN d ELSE Null

\* Mutant: the toDate branch without its try/catch; the throw escapes.
ToDateBranch_NoCatch(value) ==
  LET r == Get(value, "toDate").ret
  IN IF r.t = "throw" THEN Throws ELSE DateOrNull(r)

\* The toDate branch: try { d = value.toDate(); valid Date ? d : null }
\* catch { null }
ToDateBranch(value) ==
  LET r == Get(value, "toDate").ret
  IN IF r.t = "throw" THEN Null ELSE DateOrNull(r)

\* toDateSafe of the event detail screen
toDateSafe(value) ==
  IF value.t \in {"undefined", "null"} THEN Null
  ELSE IF value.t = "object" /\ Get(value, "toDate").t = "function"
    THEN ToDateBranch(value)
  ELSE IF value.t = "object" /\ Get(value, "seconds").t = "number"
    THEN DateOrNull(NewDate(SecondsMs(value)))
  ELSE IF value.t = "number" THEN DateOrNull(NewDate(NumberMs(value.n)))
  ELSE IF value.t = "date" THEN DateOrNull(value)
  ELSE IF value.t = "string" THEN DateOrNull(NewDate(DateParse(value.s)))
  ELSE Null

\* toDateOrNull of the events screen: value?.toDate need not sit on an object
toDateOrNull(value) ==
  IF value.t \in {"undefined", "null"} THEN Null
  ELSE IF Get(value, "toDate").t = "function" THEN ToDateBranch(value)
  ELSE IF value.t = "object" /\ Get(value, "seconds").t = "number"
    THEN DateOrNull(NewDate(SecondsMs(value)))
  ELSE IF value.t = "number" THEN DateOrNull(NewDate(NumberMs(value.n)))
  ELSE IF value.t = "date" THEN DateOrNull(value)
  ELSE IF value.t = "string" THEN DateOrNull(NewDate(DateParse(value.s)))
  ELSE Null

---------------------------------------------------------------------------
(* Coordinate normalizer *)

(* A coordinate number is a double, kept as the shortest decimal that reads *)
(* back as that double: sign, the digits of the integer part without       *)
(* leading zeros and the fraction digits without trailing zeros.  Zero has *)
(* no digits and no sign.                                                   *)
DecOf(neg, int, frac) ==
  [k |-> "dec", neg |-> neg, int |-> int, frac |-> frac]

Infinity == [k |-> "inf"]
NegInfinity == [k |-> "ninf"]

\* ds without the zeros at its end
StripTrailingZeros(ds) ==
  IF \A i \in 1..Len(ds) : ds[i] = 0 THEN <<>>
  ELSE SubSeq(ds, 1, CHOOSE i \in 1..Len(ds) :
                       ds[i] # 0 /\ \A j \in (i + 1)..Len(ds) : ds[j] = 0)

\* ds without the zeros at its start
StripLeadingZeros(ds) ==
  IF \A i \in 1..Len(ds) : ds[i] = 0 THEN <<>>
  ELSE SubSeq(ds, CHOOSE i \in 1..Len(ds) :
                    ds[i] # 0 /\ \A j \in 1..(i - 1) : ds[j] = 0, Len(ds))

\* The decimal digits of a natural number, none for 0
RECURSIVE NatDigits(_)
NatDigits(i) == IF i = 0 THEN <<>> ELSE Append(NatDigits(i \div 10), i % 10)

\* The decimal of a sign, a natural number and fraction digits
Dec(neg, int, frac) == DecOf(neg, NatDigits(int), frac)

(* Natural numbers of any size are sequences of decimal digits, the most   *)
(* significant first, without leading zeros.  The carries of a sum are     *)
(* told from the digits without following them one by one.  The            *)
(* operations on them are called by name, Big(op, x) being the operation   *)
(* op of the arguments x.                                                   *)
RECURSIVE Big(_, _)

\* a < b
BigLess(a, b) ==
  \/ Len(a) < Len(b)
  \/ /\ Len(a) = Len(b)
     /\ \E i \in 1..Len(a) :
          a[i] < b[i] /\ \A j \in 1..(i - 1) : a[j] = b[j]

\* The sign of a - b
BigCompare(a, b) == IF a = b THEN 0 ELSE IF BigLess(a, b) THEN -1 ELSE 1

\* a * 2: a digit gets a carry when the digit after it is 5 or more
BigDouble(a) ==
  (IF a # <<>> /\ a[1] >= 5 THEN <<1>> ELSE <<>>)
    \o [i \in 1..Len(a) |->
          (2 * a[i] + (IF i < Len(a) /\ a[i + 1] >= 5 THEN 1 ELSE 0)) % 10]

\* a * 10^n
BigTimesTen(a, n) == IF a = <<>> THEN <<>> ELSE a \o Zeros(n)

(* a + b: a digit gets a carry when a later pair of digits adds to 10 or   *)
(* more and every pair between adds to 9.                                  *)
BigAdd(a, b) ==
  LET n == IF Len(a) > Len(b) THEN Len(a) ELSE Len(b)
      x == Zeros(n - Len(a)) \o a
      y == Zeros(n - Len(b)) \o b
      carry(i) == \E j \in (i + 1)..n :
                    /\ x[j] + y[j] >= 10
                    /\ \A k \in (i + 1)..(j - 1) : x[k] + y[k] = 9
  IN (IF carry(0) THEN <<1>> ELSE <<>>)
       \o [i \in 1..n |-> (x[i] + y[i] + (IF carry(i) THEN 1 ELSE 0)) % 10]

(* a - b for a >= b: a digit lends when a later digit of a is below that   *)
(* of b and every pair between is equal.                                   *)
BigSub(a, b) ==
  LET n == Len(a)
      y == Zeros(n - Len(b)) \o b
      borrow(i) == \E j \in (i + 1)..n :
                     /\ a[j] < y[j]
                     /\ \A k \in (i + 1)..(j - 1) : a[k] = y[k]
  IN StripLeadingZeros(
       <<>> \o [i \in 1..n |->
                  (a[i] - y[i] - (IF borrow(i) THEN 1 ELSE 0) + 10) % 10])

(* a * 256.  The carry into a digit is told from the eight digits after   *)
(* it: 256 times a decimal fraction has the whole part of 256 times its    *)
(* first eight digits, 256 / 10^8 being 1 / 5^8.                           *)
BigTimes256(a) ==
  LET x == <<0, 0, 0>> \o a \o Zeros(8)
      window(i) == x[i + 1] * 10000000 + x[i + 2] * 1000000
                     + x[i + 3] * 100000 + x[i + 4] * 10000
                     + x[i + 5] * 1000 + x[i + 6] * 100
                     + x[i + 7] * 10 + x[i + 8]
  IN StripLeadingZeros(
       <<>> \o [i \in 1..(Len(a) + 3) |->
                  (x[i] * 256 + (window(i) \div 390625)) % 10])

\* a * 256^n
BigTimes256s(a, n) ==
  IF n = 0 THEN a ELSE Big("Times256s", <<Big("Times256", <<a>>), n - 1>>)

\* a * 2^n, in steps of 64, of 8 and of 1 doublings
BigShift(a, n) ==
  IF a = <<>> THEN <<>>
  ELSE IF n >= 64 THEN Big("Shift", <<Big("Times256s", <<a, 8>>), n - 64>>)
  ELSE IF n >= 8 THEN Big("Shift", <<Big("Times256", <<a>>), n - 8>>)
  ELSE IF n >= 1 THEN Big("Shift", <<Big("Double", <<a>>), n - 1>>)
  ELSE a

\* How often b can be taken from r, and what is left: <<count, rest>>
BigTakeAway(r, b, count) ==
  IF Big("Less", <<r, b>>) THEN <<count, r>>
  ELSE Big("TakeAway", <<Big("Sub", <<r, b>>), b, count + 1>>)

(* Long division by b from digit i of a on, the quotient q and the rest r  *)
(* of the digits before i given: <<quotient, rest>>.                       *)
BigDivideTaken(a, b, i, q, step) ==
  Big("DivideFrom",
      <<a, b, i + 1, StripLeadingZeros(Append(q, step[1])), step[2]>>)
BigDivideFrom(a, b, i, q, r) ==
  IF i > Len(a) THEN <<q, r>>
  ELSE BigDivideTaken(a, b, i, q,
         Big("TakeAway", <<StripLeadingZeros(Append(r, a[i])), b, 0>>))

\* The quotient and the rest of a by b for a quotient below 10^17
BigDivide(a, b) ==
  LET first == IF Len(a) > 17 THEN Len(a) - 16 ELSE 1
  IN Big("DivideFrom", <<a, b, first, <<>>, SubSeq(a, 1, first - 1)>>)

Big2to52 == <<4, 5, 0, 3, 5, 9, 9, 6, 2, 7, 3, 7, 0, 4, 9, 6>>
Big2to53 == <<9, 0, 0, 7, 1, 9, 9, 2, 5, 4, 7, 4, 0, 9, 9, 2>>

(* The binary exponent e of the double nearest to a / b: the numerator or  *)
(* the denominator is doubled until 2^52 <= a / b < 2^53, the exponent     *)
(* staying at -1074 or above, in steps of 64, of 8 and of 1 doublings.     *)
(* <<a, b, e>> with the scaled pair.                                       *)
BinaryScale(a, b, e, n) ==
  IF ~Big("Less", <<a, Big("Shift", <<b, 52 + n>>)>>)
    THEN Big("BinaryScale", <<a, Big("Shift", <<b, n>>), e + n, n>>)
  ELSE IF e - n >= -1074
          /\ Big("Less", <<Big("Shift", <<a, n>>), Big("Shift", <<b, 53>>)>>)
    THEN Big("BinaryScale", <<Big("Shift", <<a, n>>), b, e - n, n>>)
  ELSE IF n = 64 THEN Big("BinaryScale", <<a, b, e, 8>>)
  ELSE IF n = 8 THEN Big("BinaryScale", <<a, b, e, 1>>)
  ELSE <<a, b, e>>

(* The quotient q and the rest r of a division by b rounded to the nearest *)
(* whole number, ties to the even one                                      *)
RoundedQuotient(q, r, b) ==
  LET twice == Big("Compare", <<Big("Double", <<r>>), b>>)
      odd == q # <<>> /\ q[Len(q)] % 2 = 1
  IN IF twice > 0 \/ (twice = 0 /\ odd) THEN Big("Add", <<q, <<1>>>>) ELSE q

\* The significand m that reaches 2^53 is 2^52 with the next exponent
Normalized(m, e) == IF m = Big2to53 THEN <<Big2to52, e + 1>> ELSE <<m, e>>

Quotient(qr, b, e) == Normalized(RoundedQuotient(qr[1], qr[2], b), e)

NearestScaled(scaled) ==
  Quotient(Big("Divide", <<scaled[1], scaled[2]>>), scaled[2], scaled[3])

(* The double nearest to a / b > 0, ties to the even significand:          *)
(* <<m, e>> for m * 2^e with m below 2^53, or e = 972 past the largest.    *)
NearestDouble(a, b) == NearestScaled(Big("BinaryScale", <<a, b, 0, 64>>))

(* The shortest decimal inside the rounding interval of the double         *)
(* m * 2^e, the nearest to it among the shortest.  r / s is the rest of    *)
(* the value, up / s and down / s the half distances to the neighbours,    *)
(* ends tells whether the ends of the interval read back as the double.    *)
(* The digit d is taken with the rest left; low and high tell whether the  *)
(* rest is within the interval below and above.                            *)
(* When the digit d and the digit above it are both within the interval,   *)
(* the nearer one is taken, half the sign of twice the rest less s, and    *)
(* the even one of two that are as near.                                   *)
ShortestRound(d, half) ==
  IF half < 0 \/ (half = 0 /\ d % 2 = 0) THEN <<d>> ELSE <<d + 1>>

ShortestPick(d, rest, s, up10, down10, ends, low, high) ==
  IF ~low /\ ~high
    THEN <<d>> \o Big("ShortestDigits", <<rest, s, up10, down10, ends>>)
  ELSE IF low /\ ~high THEN <<d>>
  ELSE IF high /\ ~low THEN <<d + 1>>
  ELSE ShortestRound(d, Big("Compare", <<Big("Double", <<rest>>), s>>))

ShortestStep(step, s, up10, down10, ends, sum) ==
  ShortestPick(step[1], step[2], s, up10, down10, ends,
               IF ends THEN ~Big("Less", <<down10, step[2]>>)
                       ELSE Big("Less", <<step[2], down10>>),
               IF ends THEN ~Big("Less", <<sum, s>>)
                       ELSE Big("Less", <<s, sum>>))

ShortestTaken(step, s, up10, down10, ends) ==
  ShortestStep(step, s, up10, down10, ends, Big("Add", <<step[2], up10>>))

ShortestDigits(r, s, up, down, ends) ==
  ShortestTaken(Big("TakeAway", <<BigTimesTen(r, 1), s, 0>>), s,
                BigTimesTen(up, 1), BigTimesTen(down, 1), ends)

\* (r + up) / s reaches 1, the ends of the interval counted or not
Reaches(sum, s, ends) ==
  IF ends THEN ~Big("Less", <<sum, s>>) ELSE Big("Less", <<s, sum>>)
ReachesOne(r, s, up, ends) == Reaches(Big("Add", <<r, up>>), s, ends)

\* s is raised by powers of ten until (r + up) / s is below 1: <<s, p>>
ScaleDown(r, s, up, ends, p) ==
  IF Big("ReachesOne", <<r, s, up, ends>>)
    THEN Big("ScaleDown", <<r, BigTimesTen(s, 1), up, ends, p + 1>>)
    ELSE <<s, p>>

\* r, up and down are raised while ten times (r + up) / s stays below 1
ScaleUp(r, s, up, down, ends, p) ==
  IF ~Big("ReachesOne", <<BigTimesTen(r, 1), s, BigTimesTen(up, 1), ends>>)
    THEN Big("ScaleUp", <<BigTimesTen(r, 1), s, BigTimesTen(up, 1),
                          BigTimesTen(down, 1), ends, p - 1>>)
    ELSE <<r, up, down, p>>

\* The decimal 0.d1d2... * 10^p of digits ds
DecOfDigits(neg, ds, p) ==
  IF p <= 0 THEN DecOf(neg, <<>>, StripTrailingZeros(Zeros(-p) \o ds))
  ELSE IF p >= Len(ds) THEN DecOf(neg, ds \o Zeros(p - Len(ds)), <<>>)
  ELSE DecOf(neg, SubSeq(ds, 1, p),
             StripTrailingZeros(SubSeq(ds, p + 1, Len(ds))))

(* The rest r, the scale s and the half distances up and down of the       *)
(* double m * 2^e as whole numbers, <<r, s, up, down>>; k is 1 when the    *)
(* double below is half as far as the double above, and else 0.            *)
DoubleParts(m, e, k) ==
  IF e >= 0
    THEN <<Big("Shift", <<m, e + k + 1>>), IF k = 1 THEN <<4>> ELSE <<2>>,
           Big("Shift", <<<<1>>, e + k>>), Big("Shift", <<<<1>>, e>>)>>
    ELSE <<Big("Shift", <<m, k + 1>>), Big("Shift", <<<<1>>, k + 1 - e>>),
           IF k = 1 THEN <<2>> ELSE <<1>>, <<1>>>>

(* The parts q brought within a few powers of ten of one another, the gap  *)
(* being that of their lengths: <<r, s, up, down, p>>                      *)
Jumped(q, gap) ==
  IF gap > 0 THEN <<q[1], BigTimesTen(q[2], gap), q[3], q[4], gap>>
  ELSE IF gap < -2
    THEN <<BigTimesTen(q[1], -gap - 2), q[2], BigTimesTen(q[3], -gap - 2),
           BigTimesTen(q[4], -gap - 2), gap + 2>>
  ELSE <<q[1], q[2], q[3], q[4], 0>>

DecOfRaised(neg, ends, s, raised) ==
  DecOfDigits(neg,
              Big("ShortestDigits", <<raised[1], s, raised[2], raised[3], ends>>),
              raised[4])

DecOfLowered(neg, ends, j, lowered) ==
  DecOfRaised(neg, ends, lowered[1],
              Big("ScaleUp", <<j[1], lowered[1], j[3], j[4], ends, lowered[2]>>))

DecOfJumped(neg, ends, j) ==
  DecOfLowered(neg, ends, j, Big("ScaleDown", <<j[1], j[2], j[3], ends, j[5]>>))

DecOfParts(neg, ends, q) ==
  DecOfJumped(neg, ends, Jumped(q, Len(q[1]) - Len(q[2])))

\* The number the double m * 2^e is written as
DecOfDouble(neg, m, e) ==
  DecOfParts(neg, m[Len(m)] % 2 = 0,
             DoubleParts(m, e, IF m = Big2to52 /\ e > -1074 THEN 1 ELSE 0))

\* The number of the double <<m, e>>, past the largest or below the least
DecOfNearest(neg, double) ==
  IF double[2] > 971 THEN (IF neg THEN NegInfinity ELSE Infinity)
  ELSE IF double[1] = <<>> THEN DecOf(FALSE, <<>>, <<>>)
  ELSE DecOfDouble(neg, double[1], double[2])

(* The double of the significant digits with the decimal point after the  *)
(* first point of them, short being the digits without the zeros at their *)
(* end.  A literal of at most 15 significant digits in the normal range    *)
(* denotes itself.                                                         *)
DoubleOfDigits(neg, digits, point, short) ==
  IF digits = <<>> THEN DecOf(FALSE, <<>>, <<>>)
  ELSE IF point > 310 THEN (IF neg THEN NegInfinity ELSE Infinity)
  ELSE IF point < -330 THEN DecOf(FALSE, <<>>, <<>>)
  ELSE IF Len(short) <= 15 /\ point \in -300..300
    THEN DecOfDigits(neg, short, point)
  ELSE IF point >= Len(digits)
    THEN DecOfNearest(neg, Big("NearestDouble",
                               <<digits \o Zeros(point - Len(digits)), <<1>>>>))
  ELSE DecOfNearest(neg, Big("NearestDouble",
                             <<digits, <<1>> \o Zeros(Len(digits) - point)>>))

DoubleOfStripped(neg, int, frac, exp, digits) ==
  DoubleOfDigits(neg, digits,
                 Len(int) + exp - (Len(int) + Len(frac) - Len(digits)),
                 StripTrailingZeros(digits))

(* The double a decimal literal denotes: the digits int before and frac    *)
(* after the point, times 10^exp.                                          *)
DoubleOfDecimal(neg, int, frac, exp) ==
  DoubleOfStripped(neg, int, frac, exp, StripLeadingZeros(int \o frac))

HexChars ==
  <<"0", "1", "2", "3", "4", "5", "6", "7", "8", "9",
    "a", "b", "c", "d", "e", "f">>

\* The value of c as a digit of the base, -1 when it is none
DigitValueOf(c, base) ==
  IF \E i \in 1..base : HexChars[i] = c
    THEN (CHOOSE i \in 1..base : HexChars[i] = c) - 1
    ELSE -1
DigitOfBase(c, base) == DigitValueOf(AsciiAlphaToLower(c), base)

\* The digits of s[from..to] read in the base, as a natural number
NatOfBase(s, from, to, base) ==
  IF to < from THEN <<>>
  ELSE Big("Add", <<Big("Shift", <<Big("NatOfBase", <<s, from, to - 1, base>>),
                                   FloorLog2(base)>>),
                    NatDigits(DigitOfBase(s[to], base))>>)

\* The double of the digits s[from..to] of a literal of the base
DoubleOfBase(s, from, to, base) ==
  Big("DoubleOfDecimal",
      <<FALSE, Big("NatOfBase", <<s, from, to, base>>), <<>>, 0>>)

Big(op, x) ==
  CASE op = "Less" -> BigLess(x[1], x[2])
    [] op = "Compare" -> BigCompare(x[1], x[2])
    [] op = "Double" -> BigDouble(x[1])
    [] op = "Add" -> BigAdd(x[1], x[2])
    [] op = "Sub" -> BigSub(x[1], x[2])
    [] op = "Times256" -> BigTimes256(x[1])
    [] op = "Times256s" -> BigTimes256s(x[1], x[2])
    [] op = "Shift" -> BigShift(x[1], x[2])
    [] op = "TakeAway" -> BigTakeAway(x[1], x[2], x[3])
    [] op = "DivideFrom" -> BigDivideFrom(x[1], x[2], x[3], x[4], x[5])
    [] op = "Divide" -> BigDivide(x[1], x[2])
    [] op = "BinaryScale" -> BinaryScale(x[1], x[2], x[3], x[4])
    [] op = "NearestDouble" -> NearestDouble(x[1], x[2])
    [] op = "ShortestDigits" -> ShortestDigits(x[1], x[2], x[3], x[4], x[5])
    [] op = "ReachesOne" -> ReachesOne(x[1], x[2], x[3], x[4])
    [] op = "ScaleDown" -> ScaleDown(x[1], x[2], x[3], x[4], x[5])
    [] op = "ScaleUp" -> ScaleUp(x[1], x[2], x[3], x[4], x[5], x[6])
    [] op = "NatOfBase" -> NatOfBase(x[1], x[2], x[3], x[4])
    [] op = "DoubleOfDecimal" -> DoubleOfDecimal(x[1], x[2], x[3], x[4])
    [] op = "DoubleOfBase" -> DoubleOfBase(x[1], x[2], x[3], x[4])

RECURSIVE TrimLeft(_)
TrimLeft(s) ==
  IF s # <<>> /\ s[1] \in Whitespace THEN TrimLeft(Slice1(s)) ELSE s

RECURSIVE TrimRight(_)
TrimRight(s) ==
  IF s # <<>> /\ s[Len(s)] \in Whitespace
    THEN TrimRight(SubSeq(s, 1, Len(s) - 1))
    ELSE s

\* String.prototype.trim
Trim(s) == TrimLeft(TrimRight(s))

\* str.replace(/[...]/g, "") : the characters of the class removed
RemoveChars(s, class) == SelectSeq(s, LAMBDA c : c \notin class)

DegreeSigns == {"°", "º"}
HemisphereLetters == {"N", "S", "E", "W", "n", "s", "e", "w"}
Parentheses == {"(", ")"}

\* The last index of the run of digits that starts at i; i - 1 if none.
RECURSIVE DigitRunEnd(_, _)
DigitRunEnd(s, i) ==
  IF i <= Len(s) /\ IsDigit(s[i]) THEN DigitRunEnd(s, i + 1) ELSE i - 1

\* The end of the match of /-?\d+(\.\d+)?/ that starts at i; 0 if none.
MatchNumberAt(s, i) ==
  LET j == IF s[i] = "-" THEN i + 1 ELSE i
      e == DigitRunEnd(s, j)
  IN IF e < j THEN 0
     ELSE IF e + 1 <= Len(s) /\ s[e + 1] = "." /\ DigitRunEnd(s, e + 2) >= e + 2
       THEN DigitRunEnd(s, e + 2)
     ELSE e

\* s.match(/-?\d+(\.\d+)?/g) from index i on: the matched tokens in order.
RECURSIVE MatchAllFrom(_, _)
MatchAllFrom(s, i) ==
  IF i > Len(s) THEN <<>>
  ELSE IF MatchNumberAt(s, i) = 0 THEN MatchAllFrom(s, i + 1)
  ELSE <<SubSeq(s, i, MatchNumberAt(s, i))>>
         \o MatchAllFrom(s, MatchNumberAt(s, i) + 1)

MatchAll(s) == MatchAllFrom(s, 1)

RECURSIVE DigitSeq(_, _, _)
DigitSeq(s, from, to) ==
  IF to < from THEN <<>>
  ELSE Append(DigitSeq(s, from, to - 1), DigitVal(s[to]))

\* parseFloat of a token matched by /-?\d+(\.\d+)?/
ParseFloatToken(tok) ==
  LET j == IF tok[1] = "-" THEN 2 ELSE 1
      e == DigitRunEnd(tok, j)
  IN Big("DoubleOfDecimal", <<tok[1] = "-", DigitSeq(tok, j, e),
                              DigitSeq(tok, e + 2, Len(tok)), 0>>)

\* extractNumber: strip degree signs, hemisphere letters and parentheses,
\* then parse the first number, NaN if there is none
FirstNumber(num) == IF num # <<>> THEN ParseFloatToken(num[1]) ELSE NaN
extractNumber(str) ==
  FirstNumber(MatchAll(
    Trim(RemoveChars(RemoveChars(RemoveChars(str, DegreeSigns),
                                 HemisphereLetters), Parentheses))))

\* s.split(/\s+/).filter(Boolean): the maximal runs of non-whitespace
RECURSIVE SplitSpaces(_, _, _)
SplitSpaces(s, i, cur) ==
  IF i > Len(s) THEN (IF cur = <<>> THEN <<>> ELSE <<cur>>)
  ELSE IF s[i] \in Whitespace
    THEN (IF cur = <<>> THEN <<>> ELSE <<cur>>) \o SplitSpaces(s, i + 1, <<>>)
  ELSE SplitSpaces(s, i + 1, Append(cur, s[i]))

LatLon(lat, lon) == Obj([latitude |-> Num(lat), longitude |-> Num(lon)])

\* maybeLat: latitude ?? lat ?? _latitude ?? _lat ?? latitude
MaybeLat(coords) ==
  Coalesce(Get(coords, "latitude"),
    Coalesce(Get(coords, "lat"),
      Coalesce(Get(coords, "_latitude"),
        Coalesce(Get(coords, "_lat"), Get(coords, "latitude")))))

\* maybeLon: longitude ?? lng ?? _longitude ?? _long ?? longitude
MaybeLon(coords) ==
  Coalesce(Get(coords, "longitude"),
    Coalesce(Get(coords, "lng"),
      Coalesce(Get(coords, "_longitude"),
        Coalesce(Get(coords, "_long"), Get(coords, "longitude")))))

\* { latitude: lat, longitude: lon } when neither number is NaN
PairOrNull(lat, lon) ==
  IF lat.k # "nan" /\ lon.k # "nan" THEN LatLon(lat, lon) ELSE Null

\* The numbers of the first two parts, when there are two parts
PartsPair(parts) ==
  IF Len(parts) >= 2
    THEN PairOrNull(extractNumber(parts[1]), extractNumber(parts[2]))
    ELSE Null

\* The first two of the numbers matched anywhere, when there are two
NumsPair(nums) ==
  IF Len(nums) >= 2
    THEN PairOrNull(ParseFloatToken(nums[1]), ParseFloatToken(nums[2]))
    ELSE Null

\* The first of the three attempts that returns a pair
FirstPair(a, b, c) == IF a # Null THEN a ELSE IF b # Null THEN b ELSE c

\* The three attempts on the trimmed string s
ParseCoordParts(s) ==
  FirstPair(PartsPair(Split(s, ",")), PartsPair(SplitSpaces(s, 1, <<>>)),
            NumsPair(MatchAll(s)))

\* The string branch of parseCoordinatesFlexible: comma split, whitespace
\* split, then the first two numbers anywhere.
ParseCoordString(str) == ParseCoordParts(Trim(str))

\* parseCoordinatesFlexible: an object with numeric members, or a string
parseCoordinatesFlexible(coords) ==
  IF IsNullish(coords) THEN Null
  ELSE IF coords.t = "object" /\ MaybeLat(coords).t = "number"
          /\ MaybeLon(coords).t = "number"
    THEN Obj([latitude |-> MaybeLat(coords), longitude |-> MaybeLon(coords)])
  ELSE IF coords.t = "string" THEN ParseCoordString(coords.s)
  ELSE Null

---------------------------------------------------------------------------
(* Text search and distances *)

(* The simple lower-case mapping of the Unicode character database for   *)
(* the code units of the basic plane: UpperChars[i] becomes LowerChars[i]. *)
UpperChars ==
  << "A", "B", "C", "D", "E", "F", "G", "H", "I", "J", "K", "L", "M", "N",
     "O", "P", "Q", "R", "S", "T", "U", "V", "W", "X", "Y", "Z", "À", "Á",
     "Â", "Ã", "Ä", "Å", "Æ", "Ç", "È", "É", "Ê", "Ë", "Ì", "Í", "Î", "Ï",
     "Ð", "Ñ", "Ò", "Ó", "Ô", "Õ", "Ö", "Ø", "Ù", "Ú", "Û", "Ü", "Ý", "Þ",
     "\\u0100", "\\u0102", "\\u0104", "\\u0106", "\\u0108", "\\u010A",
     "\\u010C", "\\u010E", "\\u0110", "\\u0112", "\\u0114", "\\u0116",
     "\\u0118", "\\u011A", "\\u011C", "\\u011E", "\\u0120", "\\u0122",
     "\\u0124", "\\u0126", "\\u0128", "\\u012A", "\\u012C", "\\u012E",
     "\\u0132", "\\u0134", "\\u0136", "\\u0139", "\\u013B", "\\u013D",
     "\\u013F", "\\u0141", "\\u0143", "\\u0145", "\\u0147", "\\u014A",
     "\\u014C", "\\u014E", "\\u0150", "\\u0152", "\\u0154", "\\u0156",
     "\\u0158", "\\u015A", "\\u015C", "\\u015E", "\\u0160", "\\u0162",
     "\\u0164", "\\u0166", "\\u0168", "\\u016A", "\\u016C", "\\u016E",
     "\\u0170", "\\u0172", "\\u0174", "\\u0176", "\\u0178", "\\u0179",
     "\\u017B", "\\u017D", "Ɓ", "Ƃ", "Ƅ", "Ɔ", "Ƈ", "Ɖ", "Ɗ", "Ƌ", "Ǝ",
     "Ə", "Ɛ", "Ƒ", "Ɠ", "Ɣ", "Ɩ", "Ɨ", "Ƙ", "Ɯ", "Ɲ", "Ɵ", "Ơ", "Ƣ", "Ƥ",
     "Ʀ", "Ƨ", "Ʃ", "Ƭ", "Ʈ", "Ư", "Ʊ", "Ʋ", "Ƴ", "Ƶ", "Ʒ", "Ƹ", "Ƽ", "Ǆ",
     "ǅ", "Ǉ", "ǈ", "Ǌ", "ǋ", "Ǎ", "Ǐ", "Ǒ", "Ǔ", "Ǖ", "Ǘ", "Ǚ", "Ǜ", "Ǟ",
     "Ǡ", "Ǣ", "Ǥ", "Ǧ", "Ǩ", "Ǫ", "Ǭ", "Ǯ", "Ǳ", "ǲ", "Ǵ", "Ƕ", "Ƿ", "Ǹ",
     "Ǻ", "Ǽ", "Ǿ", "\\u0200", "\\u0202", "\\u0204", "\\u0206", "\\u0208",
     "\\u020A", "\\u020C", "\\u020E", "\\u0210", "\\u0212", "\\u0214",
     "\\u0216", "\\u0218", "\\u021A", "\\u021C", "\\u021E", "\\u0220",
     "\\u0222", "\\u0224", "\\u0226", "\\u0228", "\\u022A", "\\u022C",
     "\\u022E", "\\u0230", "\\u0232", "\\u023A", "\\u023B", "\\u023D",
     "\\u023E", "\\u0241", "\\u0243", "\\u0244", "\\u0245", "\\u0246",
     "\\u0248", "\\u024A", "\\u024C", "\\u024E", "\\u0370", "\\u0372",
     "\\u0376", "\\u037F", "Ά", "Έ", "Ή", "Ί", "Ό", "Ύ", "Ώ", "Α", "Β",
     "Γ", "Δ", "Ε", "Ζ", "Η", "Θ", "Ι", "Κ", "Λ", "Μ", "Ν", "Ξ", "Ο", "Π",
     "Ρ", "Σ", "Τ", "Υ", "Φ", "Χ", "Ψ", "Ω", "Ϊ", "Ϋ", "Ϗ", "Ϙ", "Ϛ", "Ϝ",
     "Ϟ", "Ϡ", "Ϣ", "Ϥ", "Ϧ", "Ϩ", "Ϫ", "Ϭ", "Ϯ", "ϴ", "Ϸ", "Ϲ", "Ϻ", "Ͻ",
     "Ͼ", "Ͽ", "\\u0400", "\\u0401", "\\u0402", "\\u0403", "\\u0404",
     "\\u0405", "\\u0406", "\\u0407", "\\u0408", "\\u0409", "\\u040A",
     "\\u040B", "\\u040C", "\\u040D", "\\u040E", "\\u040F", "\\u0410",
     "\\u0411", "\\u0412", "\\u0413", "\\u0414", "\\u0415", "\\u0416",
     "\\u0417", "\\u0418", "\\u0419", "\\u041A", "\\u041B", "\\u041C",
     "\\u041D", "\\u041E", "\\u041F", "\\u0420", "\\u0421", "\\u0422",
     "\\u0423", "\\u0424", "\\u0425", "\\u0426", "\\u0427", "\\u0428",
     "\\u0429", "\\u042A", "\\u042B", "\\u042C", "\\u042D", "\\u042E",
     "\\u042F", "\\u0460", "\\u0462", "\\u0464", "\\u0466", "\\u0468",
     "\\u046A", "\\u046C", "\\u046E", "\\u0470", "\\u0472", "\\u0474",
     "\\u0476", "\\u0478", "\\u047A", "\\u047C", "\\u047E", "Ҁ", "Ҋ", "Ҍ",
     "Ҏ", "Ґ", "Ғ", "Ҕ", "Җ", "Ҙ", "Қ", "Ҝ", "Ҟ", "Ҡ", "Ң", "Ҥ", "Ҧ", "Ҩ",
     "Ҫ", "Ҭ", "Ү", "Ұ", "Ҳ", "Ҵ", "Ҷ", "Ҹ", "Һ", "Ҽ", "Ҿ", "Ӏ", "Ӂ", "Ӄ",
     "Ӆ", "Ӈ", "Ӊ", "Ӌ", "Ӎ", "Ӑ", "Ӓ", "Ӕ", "Ӗ", "Ә", "Ӛ", "Ӝ", "Ӟ", "Ӡ",
     "Ӣ", "Ӥ", "Ӧ", "Ө", "Ӫ", "Ӭ", "Ӯ", "Ӱ", "Ӳ", "Ӵ", "Ӷ", "Ӹ", "Ӻ", "Ӽ",
     "Ӿ", "\\u0500", "\\u0502", "\\u0504", "\\u0506", "\\u0508", "\\u050A",
     "\\u050C", "\\u050E", "\\u0510", "\\u0512", "\\u0514", "\\u0516",
     "\\u0518", "\\u051A", "\\u051C", "\\u051E", "\\u0520", "\\u0522",
     "\\u0524", "\\u0526", "\\u0528", "\\u052A", "\\u052C", "\\u052E",
     "\\u0531", "\\u0532", "\\u0533", "\\u0534", "\\u0535", "\\u0536",
     "\\u0537", "\\u0538", "\\u0539", "\\u053A", "\\u053B", "\\u053C",
     "\\u053D", "\\u053E", "\\u053F", "\\u0540", "\\u0541", "\\u0542",
     "\\u0543", "\\u0544", "\\u0545", "\\u0546", "\\u0547", "\\u0548",
     "\\u0549", "\\u054A", "\\u054B", "\\u054C", "\\u054D", "\\u054E",
     "\\u054F", "\\u0550", "\\u0551", "\\u0552", "\\u0553", "\\u0554",
     "\\u0555", "\\u0556", "Ⴀ", "Ⴁ", "Ⴂ", "Ⴃ", "Ⴄ", "Ⴅ", "Ⴆ", "Ⴇ", "Ⴈ",
     "Ⴉ", "Ⴊ", "Ⴋ", "Ⴌ", "Ⴍ", "Ⴎ", "Ⴏ", "Ⴐ", "Ⴑ", "Ⴒ", "Ⴓ", "Ⴔ", "Ⴕ", "Ⴖ",
     "Ⴗ", "Ⴘ", "Ⴙ", "Ⴚ", "Ⴛ", "Ⴜ", "Ⴝ", "Ⴞ", "Ⴟ", "Ⴠ", "Ⴡ", "Ⴢ", "Ⴣ", "Ⴤ",
     "Ⴥ", "Ⴧ", "Ⴭ", "Ꭰ", "Ꭱ", "Ꭲ", "Ꭳ", "Ꭴ", "Ꭵ", "Ꭶ", "Ꭷ", "Ꭸ", "Ꭹ", "Ꭺ",
     "Ꭻ", "Ꭼ", "Ꭽ", "Ꭾ", "Ꭿ", "Ꮀ", "Ꮁ", "Ꮂ", "Ꮃ", "Ꮄ", "Ꮅ", "Ꮆ", "Ꮇ", "Ꮈ",
     "Ꮉ", "Ꮊ", "Ꮋ", "Ꮌ", "Ꮍ", "Ꮎ", "Ꮏ", "Ꮐ", "Ꮑ", "Ꮒ", "Ꮓ", "Ꮔ", "Ꮕ", "Ꮖ",
     "Ꮗ", "Ꮘ", "Ꮙ", "Ꮚ", "Ꮛ", "Ꮜ", "Ꮝ", "Ꮞ", "Ꮟ", "Ꮠ", "Ꮡ", "Ꮢ", "Ꮣ", "Ꮤ",
     "Ꮥ", "Ꮦ", "Ꮧ", "Ꮨ", "Ꮩ", "Ꮪ", "Ꮫ", "Ꮬ", "Ꮭ", "Ꮮ", "Ꮯ", "Ꮰ", "Ꮱ", "Ꮲ",
     "Ꮳ", "Ꮴ", "Ꮵ", "Ꮶ", "Ꮷ", "Ꮸ", "Ꮹ", "Ꮺ", "Ꮻ", "Ꮼ", "Ꮽ", "Ꮾ", "Ꮿ", "Ᏸ",
     "Ᏹ", "Ᏺ", "Ᏻ", "Ᏼ", "Ᏽ", "Ᲊ", "Ა", "Ბ", "Გ", "Დ", "Ე", "Ვ", "Ზ", "Თ",
     "Ი", "Კ", "Ლ", "Მ", "Ნ", "Ო", "Პ", "Ჟ", "Რ", "Ს", "Ტ", "Უ", "Ფ", "Ქ",
     "Ღ", "Ყ", "Შ", "Ჩ", "Ც", "Ძ", "Წ", "Ჭ", "Ხ", "Ჯ", "Ჰ", "Ჱ", "Ჲ", "Ჳ",
     "Ჴ", "Ჵ", "Ჶ", "Ჷ", "Ჸ", "Ჹ", "Ჺ", "Ჽ", "Ჾ", "Ჿ", "\\u1E00",
     "\\u1E02", "\\u1E04", "\\u1E06", "\\u1E08", "\\u1E0A", "\\u1E0C",
     "\\u1E0E", "\\u1E10", "\\u1E12", "\\u1E14", "\\u1E16", "\\u1E18",
     "\\u1E1A", "\\u1E1C", "\\u1E1E", "\\u1E20", "\\u1E22", "\\u1E24",
     "\\u1E26", "\\u1E28", "\\u1E2A", "\\u1E2C", "\\u1E2E", "\\u1E30",
     "\\u1E32", "\\u1E34", "\\u1E36", "\\u1E38", "\\u1E3A", "\\u1E3C",
     "\\u1E3E", "\\u1E40", "\\u1E42", "\\u1E44", "\\u1E46", "\\u1E48",
     "\\u1E4A", "\\u1E4C", "\\u1E4E", "\\u1E50", "\\u1E52", "\\u1E54",
     "\\u1E56", "\\u1E58", "\\u1E5A", "\\u1E5C", "\\u1E5E", "\\u1E60",
     "\\u1E62", "\\u1E64", "\\u1E66", "\\u1E68", "\\u1E6A", "\\u1E6C",
     "\\u1E6E", "\\u1E70", "\\u1E72", "\\u1E74", "\\u1E76", "\\u1E78",
     "\\u1E7A", "\\u1E7C", "\\u1E7E", "Ẁ", "Ẃ", "Ẅ", "Ẇ", "Ẉ", "Ẋ", "Ẍ",
     "Ẏ", "Ẑ", "Ẓ", "Ẕ", "ẞ", "Ạ", "Ả", "Ấ", "Ầ", "Ẩ", "Ẫ", "Ậ", "Ắ", "Ằ",
     "Ẳ", "Ẵ", "Ặ", "Ẹ", "Ẻ", "Ẽ", "Ế", "Ề", "Ể", "Ễ", "Ệ", "Ỉ", "Ị", "Ọ",
     "Ỏ", "Ố", "Ồ", "Ổ", "Ỗ", "Ộ", "Ớ", "Ờ", "Ở", "Ỡ", "Ợ", "Ụ", "Ủ", "Ứ",
     "Ừ", "Ử", "Ữ", "Ự", "Ỳ", "Ỵ", "Ỷ", "Ỹ", "Ỻ", "Ỽ", "Ỿ", "\\u1F08",
     "\\u1F09", "\\u1F0A", "\\u1F0B", "\\u1F0C", "\\u1F0D", "\\u1F0E",
     "\\u1F0F", "\\u1F18", "\\u1F19", "\\u1F1A", "\\u1F1B", "\\u1F1C",
     "\\u1F1D", "\\u1F28", "\\u1F29", "\\u1F2A", "\\u1F2B", "\\u1F2C",
     "\\u1F2D", "\\u1F2E", "\\u1F2F", "\\u1F38", "\\u1F39", "\\u1F3A",
     "\\u1F3B", "\\u1F3C", "\\u1F3D", "\\u1F3E", "\\u1F3F", "\\u1F48",
     "\\u1F49", "\\u1F4A", "\\u1F4B", "\\u1F4C", "\\u1F4D", "\\u1F59",
     "\\u1F5B", "\\u1F5D", "\\u1F5F", "\\u1F68", "\\u1F69", "\\u1F6A",
     "\\u1F6B", "\\u1F6C", "\\u1F6D", "\\u1F6E", "\\u1F6F", "ᾈ", "ᾉ", "ᾊ",
     "ᾋ", "ᾌ", "ᾍ", "ᾎ", "ᾏ", "ᾘ", "ᾙ", "ᾚ", "ᾛ", "ᾜ", "ᾝ", "ᾞ", "ᾟ", "ᾨ",
     "ᾩ", "ᾪ", "ᾫ", "ᾬ", "ᾭ", "ᾮ", "ᾯ", "Ᾰ", "Ᾱ", "Ὰ", "Ά", "ᾼ", "Ὲ", "Έ",
     "Ὴ", "Ή", "ῌ", "Ῐ", "Ῑ", "Ὶ", "Ί", "Ῠ", "Ῡ", "Ὺ", "Ύ", "Ῥ", "Ὸ", "Ό",
     "Ὼ", "Ώ", "ῼ", "\\u2126", "\\u212A", "\\u212B", "\\u2132", "\\u2160",
     "\\u2161", "\\u2162", "\\u2163", "\\u2164", "\\u2165", "\\u2166",
     "\\u2167", "\\u2168", "\\u2169", "\\u216A", "\\u216B", "\\u216C",
     "\\u216D", "\\u216E", "\\u216F", "Ↄ", "Ⓐ", "Ⓑ", "Ⓒ", "Ⓓ", "Ⓔ", "Ⓕ",
     "Ⓖ", "Ⓗ", "Ⓘ", "Ⓙ", "Ⓚ", "Ⓛ", "Ⓜ", "Ⓝ", "Ⓞ", "Ⓟ", "Ⓠ", "Ⓡ", "Ⓢ", "Ⓣ",
     "Ⓤ", "Ⓥ", "Ⓦ", "Ⓧ", "Ⓨ", "Ⓩ", "\\u2C00", "\\u2C01", "\\u2C02",
     "\\u2C03", "\\u2C04", "\\u2C05", "\\u2C06", "\\u2C07", "\\u2C08",
     "\\u2C09", "\\u2C0A", "\\u2C0B", "\\u2C0C", "\\u2C0D", "\\u2C0E",
     "\\u2C0F", "\\u2C10", "\\u2C11", "\\u2C12", "\\u2C13", "\\u2C14",
     "\\u2C15", "\\u2C16", "\\u2C17", "\\u2C18", "\\u2C19", "\\u2C1A",
     "\\u2C1B", "\\u2C1C", "\\u2C1D", "\\u2C1E", "\\u2C1F", "\\u2C20",
     "\\u2C21", "\\u2C22", "\\u2C23", "\\u2C24", "\\u2C25", "\\u2C26",
     "\\u2C27", "\\u2C28", "\\u2C29", "\\u2C2A", "\\u2C2B", "\\u2C2C",
     "\\u2C2D", "\\u2C2E", "\\u2C2F", "\\u2C60", "\\u2C62", "\\u2C63",
     "\\u2C64", "\\u2C67", "\\u2C69", "\\u2C6B", "\\u2C6D", "\\u2C6E",
     "\\u2C6F", "\\u2C70", "\\u2C72", "\\u2C75", "\\u2C7E", "\\u2C7F", "Ⲁ",
     "Ⲃ", "Ⲅ", "Ⲇ", "Ⲉ", "Ⲋ", "Ⲍ", "Ⲏ", "Ⲑ", "Ⲓ", "Ⲕ", "Ⲗ", "Ⲙ", "Ⲛ", "Ⲝ",
     "Ⲟ", "Ⲡ", "Ⲣ", "Ⲥ", "Ⲧ", "Ⲩ", "Ⲫ", "Ⲭ", "Ⲯ", "Ⲱ", "Ⲳ", "Ⲵ", "Ⲷ", "Ⲹ",
     "Ⲻ", "Ⲽ", "Ⲿ", "Ⳁ", "Ⳃ", "Ⳅ", "Ⳇ", "Ⳉ", "Ⳋ", "Ⳍ", "Ⳏ", "Ⳑ", "Ⳓ", "Ⳕ",
     "Ⳗ", "Ⳙ", "Ⳛ", "Ⳝ", "Ⳟ", "Ⳡ", "Ⳣ", "Ⳬ", "Ⳮ", "Ⳳ", "\\uA640",
     "\\uA642", "\\uA644", "\\uA646", "\\uA648", "\\uA64A", "\\uA64C",
     "\\uA64E", "\\uA650", "\\uA652", "\\uA654", "\\uA656", "\\uA658",
     "\\uA65A", "\\uA65C", "\\uA65E", "\\uA660", "\\uA662", "\\uA664",
     "\\uA666", "\\uA668", "\\uA66A", "\\uA66C", "Ꚁ", "Ꚃ", "Ꚅ", "Ꚇ", "Ꚉ",
     "Ꚋ", "Ꚍ", "Ꚏ", "Ꚑ", "Ꚓ", "Ꚕ", "Ꚗ", "Ꚙ", "Ꚛ", "\\uA722", "\\uA724",
     "\\uA726", "\\uA728", "\\uA72A", "\\uA72C", "\\uA72E", "\\uA732",
     "\\uA734", "\\uA736", "\\uA738", "\\uA73A", "\\uA73C", "\\uA73E",
     "\\uA740", "\\uA742", "\\uA744", "\\uA746", "\\uA748", "\\uA74A",
     "\\uA74C", "\\uA74E", "\\uA750", "\\uA752", "\\uA754", "\\uA756",
     "\\uA758", "\\uA75A", "\\uA75C", "\\uA75E", "\\uA760", "\\uA762",
     "\\uA764", "\\uA766", "\\uA768", "\\uA76A", "\\uA76C", "\\uA76E",
     "\\uA779", "\\uA77B", "\\uA77D", "\\uA77E", "Ꞁ", "Ꞃ", "Ꞅ", "Ꞇ", "Ꞌ",
     "Ɥ", "Ꞑ", "Ꞓ", "Ꞗ", "Ꞙ", "Ꞛ", "Ꞝ", "Ꞟ", "Ꞡ", "Ꞣ", "Ꞥ", "Ꞧ", "Ꞩ", "Ɦ",
     "Ɜ", "Ɡ", "Ɬ", "Ɪ", "Ʞ", "Ʇ", "Ʝ", "Ꭓ", "Ꞵ", "Ꞷ", "Ꞹ", "Ꞻ", "Ꞽ", "Ꞿ",
     "Ꟁ", "Ꟃ", "Ꞔ", "Ʂ", "Ᶎ", "Ꟈ", "Ꟊ", "Ɤ", "Ꟍ", "꟎", "Ꟑ", "꟒", "꟔", "Ꟗ",
     "Ꟙ", "Ꟛ", "Ƛ", "Ꟶ", "\\uFF21", "\\uFF22", "\\uFF23", "\\uFF24",
     "\\uFF25", "\\uFF26", "\\uFF27", "\\uFF28", "\\uFF29", "\\uFF2A",
     "\\uFF2B", "\\uFF2C", "\\uFF2D", "\\uFF2E", "\\uFF2F", "\\uFF30",
     "\\uFF31", "\\uFF32", "\\uFF33", "\\uFF34", "\\uFF35", "\\uFF36",
     "\\uFF37", "\\uFF38", "\\uFF39", "\\uFF3A" >>
LowerChars ==
  << "a", "b", "c", "d", "e", "f", "g", "h", "i", "j", "k", "l", "m", "n",
     "o", "p", "q", "r", "s", "t", "u", "v", "w", "x", "y", "z", "à", "á",
     "â", "ã", "ä", "å", "æ", "ç", "è", "é", "ê", "ë", "ì", "í", "î", "ï",
     "ð", "ñ", "ò", "ó", "ô", "õ", "ö", "ø", "ù", "ú", "û", "ü", "ý", "þ",
     "\\u0101", "\\u0103", "\\u0105", "\\u0107", "\\u0109", "\\u010B",
     "\\u010D", "\\u010F", "\\u0111", "\\u0113", "\\u0115", "\\u0117",
     "\\u0119", "\\u011B", "\\u011D", "\\u011F", "\\u0121", "\\u0123",
     "\\u0125", "\\u0127", "\\u0129", "\\u012B", "\\u012D", "\\u012F",
     "\\u0133", "\\u0135", "\\u0137", "\\u013A", "\\u013C", "\\u013E",
     "\\u0140", "\\u0142", "\\u0144", "\\u0146", "\\u0148", "\\u014B",
     "\\u014D", "\\u014F", "\\u0151", "\\u0153", "\\u0155", "\\u0157",
     "\\u0159", "\\u015B", "\\u015D", "\\u015F", "\\u0161", "\\u0163",
     "\\u0165", "\\u0167", "\\u0169", "\\u016B", "\\u016D", "\\u016F",
     "\\u0171", "\\u0173", "\\u0175", "\\u0177", "ÿ", "\\u017A", "\\u017C",
     "\\u017E", "\\u0253", "ƃ", "ƅ", "\\u0254", "ƈ", "\\u0256", "\\u0257",
     "ƌ", "ǝ", "\\u0259", "\\u025B", "ƒ", "\\u0260", "\\u0263", "\\u0269",
     "\\u0268", "ƙ", "\\u026F", "\\u0272", "\\u0275", "ơ", "ƣ", "ƥ", "ʀ",
     "ƨ", "ʃ", "ƭ", "ʈ", "ư", "ʊ", "ʋ", "ƴ", "ƶ", "ʒ", "ƹ", "ƽ", "ǆ", "ǆ",
     "ǉ", "ǉ", "ǌ", "ǌ", "ǎ", "ǐ", "ǒ", "ǔ", "ǖ", "ǘ", "ǚ", "ǜ", "ǟ", "ǡ",
     "ǣ", "ǥ", "ǧ", "ǩ", "ǫ", "ǭ", "ǯ", "ǳ", "ǳ", "ǵ", "ƕ", "ƿ", "ǹ", "ǻ",
     "ǽ", "ǿ", "\\u0201", "\\u0203", "\\u0205", "\\u0207", "\\u0209",
     "\\u020B", "\\u020D", "\\u020F", "\\u0211", "\\u0213", "\\u0215",
     "\\u0217", "\\u0219", "\\u021B", "\\u021D", "\\u021F", "ƞ", "\\u0223",
     "\\u0225", "\\u0227", "\\u0229", "\\u022B", "\\u022D", "\\u022F",
     "\\u0231", "\\u0233", "\\u2C65", "\\u023C", "ƚ", "\\u2C66", "\\u0242",
     "ƀ", "ʉ", "ʌ", "\\u0247", "\\u0249", "\\u024B", "\\u024D", "\\u024F",
     "\\u0371", "\\u0373", "\\u0377", "ϳ", "ά", "έ", "ή", "ί", "ό", "ύ",
     "ώ", "α", "β", "γ", "δ", "ε", "ζ", "η", "θ", "ι", "κ", "λ", "μ", "ν",
     "ξ", "ο", "π", "ρ", "σ", "τ", "υ", "φ", "χ", "ψ", "ω", "ϊ", "ϋ", "ϗ",
     "ϙ", "ϛ", "ϝ", "ϟ", "ϡ", "ϣ", "ϥ", "ϧ", "ϩ", "ϫ", "ϭ", "ϯ", "θ", "ϸ",
     "ϲ", "ϻ", "\\u037B", "\\u037C", "\\u037D", "\\u0450", "\\u0451",
     "\\u0452", "\\u0453", "\\u0454", "\\u0455", "\\u0456", "\\u0457",
     "\\u0458", "\\u0459", "\\u045A", "\\u045B", "\\u045C", "\\u045D",
     "\\u045E", "\\u045F", "\\u0430", "\\u0431", "\\u0432", "\\u0433",
     "\\u0434", "\\u0435", "\\u0436", "\\u0437", "\\u0438", "\\u0439",
     "\\u043A", "\\u043B", "\\u043C", "\\u043D", "\\u043E", "\\u043F",
     "\\u0440", "\\u0441", "\\u0442", "\\u0443", "\\u0444", "\\u0445",
     "\\u0446", "\\u0447", "\\u0448", "\\u0449", "\\u044A", "\\u044B",
     "\\u044C", "\\u044D", "\\u044E", "\\u044F", "\\u0461", "\\u0463",
     "\\u0465", "\\u0467", "\\u0469", "\\u046B", "\\u046D", "\\u046F",
     "\\u0471", "\\u0473", "\\u0475", "\\u0477", "\\u0479", "\\u047B",
     "\\u047D", "\\u047F", "ҁ", "ҋ", "ҍ", "ҏ", "ґ", "ғ", "ҕ", "җ", "ҙ",
     "қ", "ҝ", "ҟ", "ҡ", "ң", "ҥ", "ҧ", "ҩ", "ҫ", "ҭ", "ү", "ұ", "ҳ", "ҵ",
     "ҷ", "ҹ", "һ", "ҽ", "ҿ", "ӏ", "ӂ", "ӄ", "ӆ", "ӈ", "ӊ", "ӌ", "ӎ", "ӑ",
     "ӓ", "ӕ", "ӗ", "ә", "ӛ", "ӝ", "ӟ", "ӡ", "ӣ", "ӥ", "ӧ", "ө", "ӫ", "ӭ",
     "ӯ", "ӱ", "ӳ", "ӵ", "ӷ", "ӹ", "ӻ", "ӽ", "ӿ", "\\u0501", "\\u0503",
     "\\u0505", "\\u0507", "\\u0509", "\\u050B", "\\u050D", "\\u050F",
     "\\u0511", "\\u0513", "\\u0515", "\\u0517", "\\u0519", "\\u051B",
     "\\u051D", "\\u051F", "\\u0521", "\\u0523", "\\u0525", "\\u0527",
     "\\u0529", "\\u052B", "\\u052D", "\\u052F", "\\u0561", "\\u0562",
     "\\u0563", "\\u0564", "\\u0565", "\\u0566", "\\u0567", "\\u0568",
     "\\u0569", "\\u056A", "\\u056B", "\\u056C", "\\u056D", "\\u056E",
     "\\u056F", "\\u0570", "\\u0571", "\\u0572", "\\u0573", "\\u0574",
     "\\u0575", "\\u0576", "\\u0577", "\\u0578", "\\u0579", "\\u057A",
     "\\u057B", "\\u057C", "\\u057D", "\\u057E", "\\u057F", "ր", "ց", "ւ",
     "փ", "ք", "օ", "ֆ", "\\u2D00", "\\u2D01", "\\u2D02", "\\u2D03",
     "\\u2D04", "\\u2D05", "\\u2D06", "\\u2D07", "\\u2D08", "\\u2D09",
     "\\u2D0A", "\\u2D0B", "\\u2D0C", "\\u2D0D", "\\u2D0E", "\\u2D0F",
     "\\u2D10", "\\u2D11", "\\u2D12", "\\u2D13", "\\u2D14", "\\u2D15",
     "\\u2D16", "\\u2D17", "\\u2D18", "\\u2D19", "\\u2D1A", "\\u2D1B",
     "\\u2D1C", "\\u2D1D", "\\u2D1E", "\\u2D1F", "\\u2D20", "\\u2D21",
     "\\u2D22", "\\u2D23", "\\u2D24", "\\u2D25", "\\u2D27", "\\u2D2D",
     "\\uAB70", "\\uAB71", "\\uAB72", "\\uAB73", "\\uAB74", "\\uAB75",
     "\\uAB76", "\\uAB77", "\\uAB78", "\\uAB79", "\\uAB7A", "\\uAB7B",
     "\\uAB7C", "\\uAB7D", "\\uAB7E", "\\uAB7F", "ꮀ", "ꮁ", "ꮂ", "ꮃ", "ꮄ",
     "ꮅ", "ꮆ", "ꮇ", "ꮈ", "ꮉ", "ꮊ", "ꮋ", "ꮌ", "ꮍ", "ꮎ", "ꮏ", "ꮐ", "ꮑ", "ꮒ",
     "ꮓ", "ꮔ", "ꮕ", "ꮖ", "ꮗ", "ꮘ", "ꮙ", "ꮚ", "ꮛ", "ꮜ", "ꮝ", "ꮞ", "ꮟ", "ꮠ",
     "ꮡ", "ꮢ", "ꮣ", "ꮤ", "ꮥ", "ꮦ", "ꮧ", "ꮨ", "ꮩ", "ꮪ", "ꮫ", "ꮬ", "ꮭ", "ꮮ",
     "ꮯ", "ꮰ", "ꮱ", "ꮲ", "ꮳ", "ꮴ", "ꮵ", "ꮶ", "ꮷ", "ꮸ", "ꮹ", "ꮺ", "ꮻ", "ꮼ",
     "ꮽ", "ꮾ", "ꮿ", "ᏸ", "ᏹ", "ᏺ", "ᏻ", "ᏼ", "ᏽ", "ᲊ", "ა", "ბ", "გ", "დ",
     "ე", "ვ", "ზ", "თ", "ი", "კ", "ლ", "მ", "ნ", "ო", "პ", "ჟ", "რ", "ს",
     "ტ", "უ", "ფ", "ქ", "ღ", "ყ", "შ", "ჩ", "ც", "ძ", "წ", "ჭ", "ხ", "ჯ",
     "ჰ", "ჱ", "ჲ", "ჳ", "ჴ", "ჵ", "ჶ", "ჷ", "ჸ", "ჹ", "ჺ", "ჽ", "ჾ", "ჿ",
     "\\u1E01", "\\u1E03", "\\u1E05", "\\u1E07", "\\u1E09", "\\u1E0B",
     "\\u1E0D", "\\u1E0F", "\\u1E11", "\\u1E13", "\\u1E15", "\\u1E17",
     "\\u1E19", "\\u1E1B", "\\u1E1D", "\\u1E1F", "\\u1E21", "\\u1E23",
     "\\u1E25", "\\u1E27", "\\u1E29", "\\u1E2B", "\\u1E2D", "\\u1E2F",
     "\\u1E31", "\\u1E33", "\\u1E35", "\\u1E37", "\\u1E39", "\\u1E3B",
     "\\u1E3D", "\\u1E3F", "\\u1E41", "\\u1E43", "\\u1E45", "\\u1E47",
     "\\u1E49", "\\u1E4B", "\\u1E4D", "\\u1E4F", "\\u1E51", "\\u1E53",
     "\\u1E55", "\\u1E57", "\\u1E59", "\\u1E5B", "\\u1E5D", "\\u1E5F",
     "\\u1E61", "\\u1E63", "\\u1E65", "\\u1E67", "\\u1E69", "\\u1E6B",
     "\\u1E6D", "\\u1E6F", "\\u1E71", "\\u1E73", "\\u1E75", "\\u1E77",
     "\\u1E79", "\\u1E7B", "\\u1E7D", "\\u1E7F", "ẁ", "ẃ", "ẅ", "ẇ", "ẉ",
     "ẋ", "ẍ", "ẏ", "ẑ", "ẓ", "ẕ", "ß", "ạ", "ả", "ấ", "ầ", "ẩ", "ẫ", "ậ",
     "ắ", "ằ", "ẳ", "ẵ", "ặ", "ẹ", "ẻ", "ẽ", "ế", "ề", "ể", "ễ", "ệ", "ỉ",
     "ị", "ọ", "ỏ", "ố", "ồ", "ổ", "ỗ", "ộ", "ớ", "ờ", "ở", "ỡ", "ợ", "ụ",
     "ủ", "ứ", "ừ", "ử", "ữ", "ự", "ỳ", "ỵ", "ỷ", "ỹ", "ỻ", "ỽ", "ỿ",
     "\\u1F00", "\\u1F01", "\\u1F02", "\\u1F03", "\\u1F04", "\\u1F05",
     "\\u1F06", "\\u1F07", "\\u1F10", "\\u1F11", "\\u1F12", "\\u1F13",
     "\\u1F14", "\\u1F15", "\\u1F20", "\\u1F21", "\\u1F22", "\\u1F23",
     "\\u1F24", "\\u1F25", "\\u1F26", "\\u1F27", "\\u1F30", "\\u1F31",
     "\\u1F32", "\\u1F33", "\\u1F34", "\\u1F35", "\\u1F36", "\\u1F37",
     "\\u1F40", "\\u1F41", "\\u1F42", "\\u1F43", "\\u1F44", "\\u1F45",
     "\\u1F51", "\\u1F53", "\\u1F55", "\\u1F57", "\\u1F60", "\\u1F61",
     "\\u1F62", "\\u1F63", "\\u1F64", "\\u1F65", "\\u1F66", "\\u1F67", "ᾀ",
     "ᾁ", "ᾂ", "ᾃ", "ᾄ", "ᾅ", "ᾆ", "ᾇ", "ᾐ", "ᾑ", "ᾒ", "ᾓ", "ᾔ", "ᾕ", "ᾖ",
     "ᾗ", "ᾠ", "ᾡ", "ᾢ", "ᾣ", "ᾤ", "ᾥ", "ᾦ", "ᾧ", "ᾰ", "ᾱ", "\\u1F70",
     "\\u1F71", "ᾳ", "\\u1F72", "\\u1F73", "\\u1F74", "\\u1F75", "ῃ", "ῐ",
     "ῑ", "\\u1F76", "\\u1F77", "ῠ", "ῡ", "\\u1F7A", "\\u1F7B", "ῥ",
     "\\u1F78", "\\u1F79", "\\u1F7C", "\\u1F7D", "ῳ", "ω", "k", "å",
     "\\u214E", "\\u2170", "\\u2171", "\\u2172", "\\u2173", "\\u2174",
     "\\u2175", "\\u2176", "\\u2177", "\\u2178", "\\u2179", "\\u217A",
     "\\u217B", "\\u217C", "\\u217D", "\\u217E", "\\u217F", "ↄ", "ⓐ", "ⓑ",
     "ⓒ", "ⓓ", "ⓔ", "ⓕ", "ⓖ", "ⓗ", "ⓘ", "ⓙ", "ⓚ", "ⓛ", "ⓜ", "ⓝ", "ⓞ", "ⓟ",
     "ⓠ", "ⓡ", "ⓢ", "ⓣ", "ⓤ", "ⓥ", "ⓦ", "ⓧ", "ⓨ", "ⓩ", "\\u2C30",
     "\\u2C31", "\\u2C32", "\\u2C33", "\\u2C34", "\\u2C35", "\\u2C36",
     "\\u2C37", "\\u2C38", "\\u2C39", "\\u2C3A", "\\u2C3B", "\\u2C3C",
     "\\u2C3D", "\\u2C3E", "\\u2C3F", "\\u2C40", "\\u2C41", "\\u2C42",
     "\\u2C43", "\\u2C44", "\\u2C45", "\\u2C46", "\\u2C47", "\\u2C48",
     "\\u2C49", "\\u2C4A", "\\u2C4B", "\\u2C4C", "\\u2C4D", "\\u2C4E",
     "\\u2C4F", "\\u2C50", "\\u2C51", "\\u2C52", "\\u2C53", "\\u2C54",
     "\\u2C55", "\\u2C56", "\\u2C57", "\\u2C58", "\\u2C59", "\\u2C5A",
     "\\u2C5B", "\\u2C5C", "\\u2C5D", "\\u2C5E", "\\u2C5F", "\\u2C61",
     "\\u026B", "\\u1D7D", "\\u027D", "\\u2C68", "\\u2C6A", "\\u2C6C",
     "\\u0251", "\\u0271", "\\u0250", "\\u0252", "\\u2C73", "\\u2C76",
     "\\u023F", "\\u0240", "ⲁ", "ⲃ", "ⲅ", "ⲇ", "ⲉ", "ⲋ", "ⲍ", "ⲏ", "ⲑ",
     "ⲓ", "ⲕ", "ⲗ", "ⲙ", "ⲛ", "ⲝ", "ⲟ", "ⲡ", "ⲣ", "ⲥ", "ⲧ", "ⲩ", "ⲫ", "ⲭ",
     "ⲯ", "ⲱ", "ⲳ", "ⲵ", "ⲷ", "ⲹ", "ⲻ", "ⲽ", "ⲿ", "ⳁ", "ⳃ", "ⳅ", "ⳇ", "ⳉ",
     "ⳋ", "ⳍ", "ⳏ", "ⳑ", "ⳓ", "ⳕ", "ⳗ", "ⳙ", "ⳛ", "ⳝ", "ⳟ", "ⳡ", "ⳣ", "ⳬ",
     "ⳮ", "ⳳ", "\\uA641", "\\uA643", "\\uA645", "\\uA647", "\\uA649",
     "\\uA64B", "\\uA64D", "\\uA64F", "\\uA651", "\\uA653", "\\uA655",
     "\\uA657", "\\uA659", "\\uA65B", "\\uA65D", "\\uA65F", "\\uA661",
     "\\uA663", "\\uA665", "\\uA667", "\\uA669", "\\uA66B", "\\uA66D", "ꚁ",
     "ꚃ", "ꚅ", "ꚇ", "ꚉ", "ꚋ", "ꚍ", "ꚏ", "ꚑ", "ꚓ", "ꚕ", "ꚗ", "ꚙ", "ꚛ",
     "\\uA723", "\\uA725", "\\uA727", "\\uA729", "\\uA72B", "\\uA72D",
     "\\uA72F", "\\uA733", "\\uA735", "\\uA737", "\\uA739", "\\uA73B",
     "\\uA73D", "\\uA73F", "\\uA741", "\\uA743", "\\uA745", "\\uA747",
     "\\uA749", "\\uA74B", "\\uA74D", "\\uA74F", "\\uA751", "\\uA753",
     "\\uA755", "\\uA757", "\\uA759", "\\uA75B", "\\uA75D", "\\uA75F",
     "\\uA761", "\\uA763", "\\uA765", "\\uA767", "\\uA769", "\\uA76B",
     "\\uA76D", "\\uA76F", "\\uA77A", "\\uA77C", "\\u1D79", "\\uA77F", "ꞁ",
     "ꞃ", "ꞅ", "ꞇ", "ꞌ", "\\u0265", "ꞑ", "ꞓ", "ꞗ", "ꞙ", "ꞛ", "ꞝ", "ꞟ", "ꞡ",
     "ꞣ", "ꞥ", "ꞧ", "ꞩ", "\\u0266", "\\u025C", "\\u0261", "\\u026C",
     "\\u026A", "ʞ", "ʇ", "ʝ", "\\uAB53", "ꞵ", "ꞷ", "ꞹ", "ꞻ", "ꞽ", "ꞿ",
     "ꟁ", "ꟃ", "ꞔ", "ʂ", "ᶎ", "ꟈ", "ꟊ", "\\u0264", "ꟍ", "꟏", "ꟑ", "ꟓ", "ꟕ",
     "ꟗ", "ꟙ", "ꟛ", "ƛ", "ꟶ", "\\uFF41", "\\uFF42", "\\uFF43", "\\uFF44",
     "\\uFF45", "\\uFF46", "\\uFF47", "\\uFF48", "\\uFF49", "\\uFF4A",
     "\\uFF4B", "\\uFF4C", "\\uFF4D", "\\uFF4E", "\\uFF4F", "\\uFF50",
     "\\uFF51", "\\uFF52", "\\uFF53", "\\uFF54", "\\uFF55", "\\uFF56",
     "\\uFF57", "\\uFF58", "\\uFF59", "\\uFF5A" >>

(* The letters outside the basic plane that have a lower case, each as its *)
(* pair of surrogate code units, and their lower-case pairs.               *)
SupplementaryUpper ==
  << <<"\\uD801", "\\uDC00">>, <<"\\uD801", "\\uDC01">>,
     <<"\\uD801", "\\uDC02">>, <<"\\uD801", "\\uDC03">>,
     <<"\\uD801", "\\uDC04">>, <<"\\uD801", "\\uDC05">>,
     <<"\\uD801", "\\uDC06">>, <<"\\uD801", "\\uDC07">>,
     <<"\\uD801", "\\uDC08">>, <<"\\uD801", "\\uDC09">>,
     <<"\\uD801", "\\uDC0A">>, <<"\\uD801", "\\uDC0B">>,
     <<"\\uD801", "\\uDC0C">>, <<"\\uD801", "\\uDC0D">>,
     <<"\\uD801", "\\uDC0E">>, <<"\\uD801", "\\uDC0F">>,
     <<"\\uD801", "\\uDC10">>, <<"\\uD801", "\\uDC11">>,
     <<"\\uD801", "\\uDC12">>, <<"\\uD801", "\\uDC13">>,
     <<"\\uD801", "\\uDC14">>, <<"\\uD801", "\\uDC15">>,
     <<"\\uD801", "\\uDC16">>, <<"\\uD801", "\\uDC17">>,
     <<"\\uD801", "\\uDC18">>, <<"\\uD801", "\\uDC19">>,
     <<"\\uD801", "\\uDC1A">>, <<"\\uD801", "\\uDC1B">>,
     <<"\\uD801", "\\uDC1C">>, <<"\\uD801", "\\uDC1D">>,
     <<"\\uD801", "\\uDC1E">>, <<"\\uD801", "\\uDC1F">>,
     <<"\\uD801", "\\uDC20">>, <<"\\uD801", "\\uDC21">>,
     <<"\\uD801", "\\uDC22">>, <<"\\uD801", "\\uDC23">>,
     <<"\\uD801", "\\uDC24">>, <<"\\uD801", "\\uDC25">>,
     <<"\\uD801", "\\uDC26">>, <<"\\uD801", "\\uDC27">>,
     <<"\\uD801", "\\uDCB0">>, <<"\\uD801", "\\uDCB1">>,
     <<"\\uD801", "\\uDCB2">>, <<"\\uD801", "\\uDCB3">>,
     <<"\\uD801", "\\uDCB4">>, <<"\\uD801", "\\uDCB5">>,
     <<"\\uD801", "\\uDCB6">>, <<"\\uD801", "\\uDCB7">>,
     <<"\\uD801", "\\uDCB8">>, <<"\\uD801", "\\uDCB9">>,
     <<"\\uD801", "\\uDCBA">>, <<"\\uD801", "\\uDCBB">>,
     <<"\\uD801", "\\uDCBC">>, <<"\\uD801", "\\uDCBD">>,
     <<"\\uD801", "\\uDCBE">>, <<"\\uD801", "\\uDCBF">>,
     <<"\\uD801", "\\uDCC0">>, <<"\\uD801", "\\uDCC1">>,
     <<"\\uD801", "\\uDCC2">>, <<"\\uD801", "\\uDCC3">>,
     <<"\\uD801", "\\uDCC4">>, <<"\\uD801", "\\uDCC5">>,
     <<"\\uD801", "\\uDCC6">>, <<"\\uD801", "\\uDCC7">>,
     <<"\\uD801", "\\uDCC8">>, <<"\\uD801", "\\uDCC9">>,
     <<"\\uD801", "\\uDCCA">>, <<"\\uD801", "\\uDCCB">>,
     <<"\\uD801", "\\uDCCC">>, <<"\\uD801", "\\uDCCD">>,
     <<"\\uD801", "\\uDCCE">>, <<"\\uD801", "\\uDCCF">>,
     <<"\\uD801", "\\uDCD0">>, <<"\\uD801", "\\uDCD1">>,
     <<"\\uD801", "\\uDCD2">>, <<"\\uD801", "\\uDCD3">>,
     <<"\\uD801", "\\uDD70">>, <<"\\uD801", "\\uDD71">>,
     <<"\\uD801", "\\uDD72">>, <<"\\uD801", "\\uDD73">>,
     <<"\\uD801", "\\uDD74">>, <<"\\uD801", "\\uDD75">>,
     <<"\\uD801", "\\uDD76">>, <<"\\uD801", "\\uDD77">>,
     <<"\\uD801", "\\uDD78">>, <<"\\uD801", "\\uDD79">>,
     <<"\\uD801", "\\uDD7A">>, <<"\\uD801", "\\uDD7C">>,
     <<"\\uD801", "\\uDD7D">>, <<"\\uD801", "\\uDD7E">>,
     <<"\\uD801", "\\uDD7F">>, <<"\\uD801", "\\uDD80">>,
     <<"\\uD801", "\\uDD81">>, <<"\\uD801", "\\uDD82">>,
     <<"\\uD801", "\\uDD83">>, <<"\\uD801", "\\uDD84">>,
     <<"\\uD801", "\\uDD85">>, <<"\\uD801", "\\uDD86">>,
     <<"\\uD801", "\\uDD87">>, <<"\\uD801", "\\uDD88">>,
     <<"\\uD801", "\\uDD89">>, <<"\\uD801", "\\uDD8A">>,
     <<"\\uD801", "\\uDD8C">>, <<"\\uD801", "\\uDD8D">>,
     <<"\\uD801", "\\uDD8E">>, <<"\\uD801", "\\uDD8F">>,
     <<"\\uD801", "\\uDD90">>, <<"\\uD801", "\\uDD91">>,
     <<"\\uD801", "\\uDD92">>, <<"\\uD801", "\\uDD94">>,
     <<"\\uD801", "\\uDD95">>, <<"\\uD803", "\\uDC80">>,
     <<"\\uD803", "\\uDC81">>, <<"\\uD803", "\\uDC82">>,
     <<"\\uD803", "\\uDC83">>, <<"\\uD803", "\\uDC84">>,
     <<"\\uD803", "\\uDC85">>, <<"\\uD803", "\\uDC86">>,
     <<"\\uD803", "\\uDC87">>, <<"\\uD803", "\\uDC88">>,
     <<"\\uD803", "\\uDC89">>, <<"\\uD803", "\\uDC8A">>,
     <<"\\uD803", "\\uDC8B">>, <<"\\uD803", "\\uDC8C">>,
     <<"\\uD803", "\\uDC8D">>, <<"\\uD803", "\\uDC8E">>,
     <<"\\uD803", "\\uDC8F">>, <<"\\uD803", "\\uDC90">>,
     <<"\\uD803", "\\uDC91">>, <<"\\uD803", "\\uDC92">>,
     <<"\\uD803", "\\uDC93">>, <<"\\uD803", "\\uDC94">>,
     <<"\\uD803", "\\uDC95">>, <<"\\uD803", "\\uDC96">>,
     <<"\\uD803", "\\uDC97">>, <<"\\uD803", "\\uDC98">>,
     <<"\\uD803", "\\uDC99">>, <<"\\uD803", "\\uDC9A">>,
     <<"\\uD803", "\\uDC9B">>, <<"\\uD803", "\\uDC9C">>,
     <<"\\uD803", "\\uDC9D">>, <<"\\uD803", "\\uDC9E">>,
     <<"\\uD803", "\\uDC9F">>, <<"\\uD803", "\\uDCA0">>,
     <<"\\uD803", "\\uDCA1">>, <<"\\uD803", "\\uDCA2">>,
     <<"\\uD803", "\\uDCA3">>, <<"\\uD803", "\\uDCA4">>,
     <<"\\uD803", "\\uDCA5">>, <<"\\uD803", "\\uDCA6">>,
     <<"\\uD803", "\\uDCA7">>, <<"\\uD803", "\\uDCA8">>,
     <<"\\uD803", "\\uDCA9">>, <<"\\uD803", "\\uDCAA">>,
     <<"\\uD803", "\\uDCAB">>, <<"\\uD803", "\\uDCAC">>,
     <<"\\uD803", "\\uDCAD">>, <<"\\uD803", "\\uDCAE">>,
     <<"\\uD803", "\\uDCAF">>, <<"\\uD803", "\\uDCB0">>,
     <<"\\uD803", "\\uDCB1">>, <<"\\uD803", "\\uDCB2">>,
     <<"\\uD803", "\\uDD50">>, <<"\\uD803", "\\uDD51">>,
     <<"\\uD803", "\\uDD52">>, <<"\\uD803", "\\uDD53">>,
     <<"\\uD803", "\\uDD54">>, <<"\\uD803", "\\uDD55">>,
     <<"\\uD803", "\\uDD56">>, <<"\\uD803", "\\uDD57">>,
     <<"\\uD803", "\\uDD58">>, <<"\\uD803", "\\uDD59">>,
     <<"\\uD803", "\\uDD5A">>, <<"\\uD803", "\\uDD5B">>,
     <<"\\uD803", "\\uDD5C">>, <<"\\uD803", "\\uDD5D">>,
     <<"\\uD803", "\\uDD5E">>, <<"\\uD803", "\\uDD5F">>,
     <<"\\uD803", "\\uDD60">>, <<"\\uD803", "\\uDD61">>,
     <<"\\uD803", "\\uDD62">>, <<"\\uD803", "\\uDD63">>,
     <<"\\uD803", "\\uDD64">>, <<"\\uD803", "\\uDD65">>,
     <<"\\uD806", "\\uDCA0">>, <<"\\uD806", "\\uDCA1">>,
     <<"\\uD806", "\\uDCA2">>, <<"\\uD806", "\\uDCA3">>,
     <<"\\uD806", "\\uDCA4">>, <<"\\uD806", "\\uDCA5">>,
     <<"\\uD806", "\\uDCA6">>, <<"\\uD806", "\\uDCA7">>,
     <<"\\uD806", "\\uDCA8">>, <<"\\uD806", "\\uDCA9">>,
     <<"\\uD806", "\\uDCAA">>, <<"\\uD806", "\\uDCAB">>,
     <<"\\uD806", "\\uDCAC">>, <<"\\uD806", "\\uDCAD">>,
     <<"\\uD806", "\\uDCAE">>, <<"\\uD806", "\\uDCAF">>,
     <<"\\uD806", "\\uDCB0">>, <<"\\uD806", "\\uDCB1">>,
     <<"\\uD806", "\\uDCB2">>, <<"\\uD806", "\\uDCB3">>,
     <<"\\uD806", "\\uDCB4">>, <<"\\uD806", "\\uDCB5">>,
     <<"\\uD806", "\\uDCB6">>, <<"\\uD806", "\\uDCB7">>,
     <<"\\uD806", "\\uDCB8">>, <<"\\uD806", "\\uDCB9">>,
     <<"\\uD806", "\\uDCBA">>, <<"\\uD806", "\\uDCBB">>,
     <<"\\uD806", "\\uDCBC">>, <<"\\uD806", "\\uDCBD">>,
     <<"\\uD806", "\\uDCBE">>, <<"\\uD806", "\\uDCBF">>,
     <<"\\uD81B", "\\uDE40">>, <<"\\uD81B", "\\uDE41">>,
     <<"\\uD81B", "\\uDE42">>, <<"\\uD81B", "\\uDE43">>,
     <<"\\uD81B", "\\uDE44">>, <<"\\uD81B", "\\uDE45">>,
     <<"\\uD81B", "\\uDE46">>, <<"\\uD81B", "\\uDE47">>,
     <<"\\uD81B", "\\uDE48">>, <<"\\uD81B", "\\uDE49">>,
     <<"\\uD81B", "\\uDE4A">>, <<"\\uD81B", "\\uDE4B">>,
     <<"\\uD81B", "\\uDE4C">>, <<"\\uD81B", "\\uDE4D">>,
     <<"\\uD81B", "\\uDE4E">>, <<"\\uD81B", "\\uDE4F">>,
     <<"\\uD81B", "\\uDE50">>, <<"\\uD81B", "\\uDE51">>,
     <<"\\uD81B", "\\uDE52">>, <<"\\uD81B", "\\uDE53">>,
     <<"\\uD81B", "\\uDE54">>, <<"\\uD81B", "\\uDE55">>,
     <<"\\uD81B", "\\uDE56">>, <<"\\uD81B", "\\uDE57">>,
     <<"\\uD81B", "\\uDE58">>, <<"\\uD81B", "\\uDE59">>,
     <<"\\uD81B", "\\uDE5A">>, <<"\\uD81B", "\\uDE5B">>,
     <<"\\uD81B", "\\uDE5C">>, <<"\\uD81B", "\\uDE5D">>,
     <<"\\uD81B", "\\uDE5E">>, <<"\\uD81B", "\\uDE5F">>,
     <<"\\uD81B", "\\uDEA0">>, <<"\\uD81B", "\\uDEA1">>,
     <<"\\uD81B", "\\uDEA2">>, <<"\\uD81B", "\\uDEA3">>,
     <<"\\uD81B", "\\uDEA4">>, <<"\\uD81B", "\\uDEA5">>,
     <<"\\uD81B", "\\uDEA6">>, <<"\\uD81B", "\\uDEA7">>,
     <<"\\uD81B", "\\uDEA8">>, <<"\\uD81B", "\\uDEA9">>,
     <<"\\uD81B", "\\uDEAA">>, <<"\\uD81B", "\\uDEAB">>,
     <<"\\uD81B", "\\uDEAC">>, <<"\\uD81B", "\\uDEAD">>,
     <<"\\uD81B", "\\uDEAE">>, <<"\\uD81B", "\\uDEAF">>,
     <<"\\uD81B", "\\uDEB0">>, <<"\\uD81B", "\\uDEB1">>,
     <<"\\uD81B", "\\uDEB2">>, <<"\\uD81B", "\\uDEB3">>,
     <<"\\uD81B", "\\uDEB4">>, <<"\\uD81B", "\\uDEB5">>,
     <<"\\uD81B", "\\uDEB6">>, <<"\\uD81B", "\\uDEB7">>,
     <<"\\uD81B", "\\uDEB8">>, <<"\\uD83A", "\\uDD00">>,
     <<"\\uD83A", "\\uDD01">>, <<"\\uD83A", "\\uDD02">>,
     <<"\\uD83A", "\\uDD03">>, <<"\\uD83A", "\\uDD04">>,
     <<"\\uD83A", "\\uDD05">>, <<"\\uD83A", "\\uDD06">>,
     <<"\\uD83A", "\\uDD07">>, <<"\\uD83A", "\\uDD08">>,
     <<"\\uD83A", "\\uDD09">>, <<"\\uD83A", "\\uDD0A">>,
     <<"\\uD83A", "\\uDD0B">>, <<"\\uD83A", "\\uDD0C">>,
     <<"\\uD83A", "\\uDD0D">>, <<"\\uD83A", "\\uDD0E">>,
     <<"\\uD83A", "\\uDD0F">>, <<"\\uD83A", "\\uDD10">>,
     <<"\\uD83A", "\\uDD11">>, <<"\\uD83A", "\\uDD12">>,
     <<"\\uD83A", "\\uDD13">>, <<"\\uD83A", "\\uDD14">>,
     <<"\\uD83A", "\\uDD15">>, <<"\\uD83A", "\\uDD16">>,
     <<"\\uD83A", "\\uDD17">>, <<"\\uD83A", "\\uDD18">>,
     <<"\\uD83A", "\\uDD19">>, <<"\\uD83A", "\\uDD1A">>,
     <<"\\uD83A", "\\uDD1B">>, <<"\\uD83A", "\\uDD1C">>,
     <<"\\uD83A", "\\uDD1D">>, <<"\\uD83A", "\\uDD1E">>,
     <<"\\uD83A", "\\uDD1F">>, <<"\\uD83A", "\\uDD20">>,
     <<"\\uD83A", "\\uDD21">> >>
SupplementaryLower ==
  << <<"\\uD801", "\\uDC28">>, <<"\\uD801", "\\uDC29">>,
     <<"\\uD801", "\\uDC2A">>, <<"\\uD801", "\\uDC2B">>,
     <<"\\uD801", "\\uDC2C">>, <<"\\uD801", "\\uDC2D">>,
     <<"\\uD801", "\\uDC2E">>, <<"\\uD801", "\\uDC2F">>,
     <<"\\uD801", "\\uDC30">>, <<"\\uD801", "\\uDC31">>,
     <<"\\uD801", "\\uDC32">>, <<"\\uD801", "\\uDC33">>,
     <<"\\uD801", "\\uDC34">>, <<"\\uD801", "\\uDC35">>,
     <<"\\uD801", "\\uDC36">>, <<"\\uD801", "\\uDC37">>,
     <<"\\uD801", "\\uDC38">>, <<"\\uD801", "\\uDC39">>,
     <<"\\uD801", "\\uDC3A">>, <<"\\uD801", "\\uDC3B">>,
     <<"\\uD801", "\\uDC3C">>, <<"\\uD801", "\\uDC3D">>,
     <<"\\uD801", "\\uDC3E">>, <<"\\uD801", "\\uDC3F">>,
     <<"\\uD801", "\\uDC40">>, <<"\\uD801", "\\uDC41">>,
     <<"\\uD801", "\\uDC42">>, <<"\\uD801", "\\uDC43">>,
     <<"\\uD801", "\\uDC44">>, <<"\\uD801", "\\uDC45">>,
     <<"\\uD801", "\\uDC46">>, <<"\\uD801", "\\uDC47">>,
     <<"\\uD801", "\\uDC48">>, <<"\\uD801", "\\uDC49">>,
     <<"\\uD801", "\\uDC4A">>, <<"\\uD801", "\\uDC4B">>,
     <<"\\uD801", "\\uDC4C">>, <<"\\uD801", "\\uDC4D">>,
     <<"\\uD801", "\\uDC4E">>, <<"\\uD801", "\\uDC4F">>,
     <<"\\uD801", "\\uDCD8">>, <<"\\uD801", "\\uDCD9">>,
     <<"\\uD801", "\\uDCDA">>, <<"\\uD801", "\\uDCDB">>,
     <<"\\uD801", "\\uDCDC">>, <<"\\uD801", "\\uDCDD">>,
     <<"\\uD801", "\\uDCDE">>, <<"\\uD801", "\\uDCDF">>,
     <<"\\uD801", "\\uDCE0">>, <<"\\uD801", "\\uDCE1">>,
     <<"\\uD801", "\\uDCE2">>, <<"\\uD801", "\\uDCE3">>,
     <<"\\uD801", "\\uDCE4">>, <<"\\uD801", "\\uDCE5">>,
     <<"\\uD801", "\\uDCE6">>, <<"\\uD801", "\\uDCE7">>,
     <<"\\uD801", "\\uDCE8">>, <<"\\uD801", "\\uDCE9">>,
     <<"\\uD801", "\\uDCEA">>, <<"\\uD801", "\\uDCEB">>,
     <<"\\uD801", "\\uDCEC">>, <<"\\uD801", "\\uDCED">>,
     <<"\\uD801", "\\uDCEE">>, <<"\\uD801", "\\uDCEF">>,
     <<"\\uD801", "\\uDCF0">>, <<"\\uD801", "\\uDCF1">>,
     <<"\\uD801", "\\uDCF2">>, <<"\\uD801", "\\uDCF3">>,
     <<"\\uD801", "\\uDCF4">>, <<"\\uD801", "\\uDCF5">>,
     <<"\\uD801", "\\uDCF6">>, <<"\\uD801", "\\uDCF7">>,
     <<"\\uD801", "\\uDCF8">>, <<"\\uD801", "\\uDCF9">>,
     <<"\\uD801", "\\uDCFA">>, <<"\\uD801", "\\uDCFB">>,
     <<"\\uD801", "\\uDD97">>, <<"\\uD801", "\\uDD98">>,
     <<"\\uD801", "\\uDD99">>, <<"\\uD801", "\\uDD9A">>,
     <<"\\uD801", "\\uDD9B">>, <<"\\uD801", "\\uDD9C">>,
     <<"\\uD801", "\\uDD9D">>, <<"\\uD801", "\\uDD9E">>,
     <<"\\uD801", "\\uDD9F">>, <<"\\uD801", "\\uDDA0">>,
     <<"\\uD801", "\\uDDA1">>, <<"\\uD801", "\\uDDA3">>,
     <<"\\uD801", "\\uDDA4">>, <<"\\uD801", "\\uDDA5">>,
     <<"\\uD801", "\\uDDA6">>, <<"\\uD801", "\\uDDA7">>,
     <<"\\uD801", "\\uDDA8">>, <<"\\uD801", "\\uDDA9">>,
     <<"\\uD801", "\\uDDAA">>, <<"\\uD801", "\\uDDAB">>,
     <<"\\uD801", "\\uDDAC">>, <<"\\uD801", "\\uDDAD">>,
     <<"\\uD801", "\\uDDAE">>, <<"\\uD801", "\\uDDAF">>,
     <<"\\uD801", "\\uDDB0">>, <<"\\uD801", "\\uDDB1">>,
     <<"\\uD801", "\\uDDB3">>, <<"\\uD801", "\\uDDB4">>,
     <<"\\uD801", "\\uDDB5">>, <<"\\uD801", "\\uDDB6">>,
     <<"\\uD801", "\\uDDB7">>, <<"\\uD801", "\\uDDB8">>,
     <<"\\uD801", "\\uDDB9">>, <<"\\uD801", "\\uDDBB">>,
     <<"\\uD801", "\\uDDBC">>, <<"\\uD803", "\\uDCC0">>,
     <<"\\uD803", "\\uDCC1">>, <<"\\uD803", "\\uDCC2">>,
     <<"\\uD803", "\\uDCC3">>, <<"\\uD803", "\\uDCC4">>,
     <<"\\uD803", "\\uDCC5">>, <<"\\uD803", "\\uDCC6">>,
     <<"\\uD803", "\\uDCC7">>, <<"\\uD803", "\\uDCC8">>,
     <<"\\uD803", "\\uDCC9">>, <<"\\uD803", "\\uDCCA">>,
     <<"\\uD803", "\\uDCCB">>, <<"\\uD803", "\\uDCCC">>,
     <<"\\uD803", "\\uDCCD">>, <<"\\uD803", "\\uDCCE">>,
     <<"\\uD803", "\\uDCCF">>, <<"\\uD803", "\\uDCD0">>,
     <<"\\uD803", "\\uDCD1">>, <<"\\uD803", "\\uDCD2">>,
     <<"\\uD803", "\\uDCD3">>, <<"\\uD803", "\\uDCD4">>,
     <<"\\uD803", "\\uDCD5">>, <<"\\uD803", "\\uDCD6">>,
     <<"\\uD803", "\\uDCD7">>, <<"\\uD803", "\\uDCD8">>,
     <<"\\uD803", "\\uDCD9">>, <<"\\uD803", "\\uDCDA">>,
     <<"\\uD803", "\\uDCDB">>, <<"\\uD803", "\\uDCDC">>,
     <<"\\uD803", "\\uDCDD">>, <<"\\uD803", "\\uDCDE">>,
     <<"\\uD803", "\\uDCDF">>, <<"\\uD803", "\\uDCE0">>,
     <<"\\uD803", "\\uDCE1">>, <<"\\uD803", "\\uDCE2">>,
     <<"\\uD803", "\\uDCE3">>, <<"\\uD803", "\\uDCE4">>,
     <<"\\uD803", "\\uDCE5">>, <<"\\uD803", "\\uDCE6">>,
     <<"\\uD803", "\\uDCE7">>, <<"\\uD803", "\\uDCE8">>,
     <<"\\uD803", "\\uDCE9">>, <<"\\uD803", "\\uDCEA">>,
     <<"\\uD803", "\\uDCEB">>, <<"\\uD803", "\\uDCEC">>,
     <<"\\uD803", "\\uDCED">>, <<"\\uD803", "\\uDCEE">>,
     <<"\\uD803", "\\uDCEF">>, <<"\\uD803", "\\uDCF0">>,
     <<"\\uD803", "\\uDCF1">>, <<"\\uD803", "\\uDCF2">>,
     <<"\\uD803", "\\uDD70">>, <<"\\uD803", "\\uDD71">>,
     <<"\\uD803", "\\uDD72">>, <<"\\uD803", "\\uDD73">>,
     <<"\\uD803", "\\uDD74">>, <<"\\uD803", "\\uDD75">>,
     <<"\\uD803", "\\uDD76">>, <<"\\uD803", "\\uDD77">>,
     <<"\\uD803", "\\uDD78">>, <<"\\uD803", "\\uDD79">>,
     <<"\\uD803", "\\uDD7A">>, <<"\\uD803", "\\uDD7B">>,
     <<"\\uD803", "\\uDD7C">>, <<"\\uD803", "\\uDD7D">>,
     <<"\\uD803", "\\uDD7E">>, <<"\\uD803", "\\uDD7F">>,
     <<"\\uD803", "\\uDD80">>, <<"\\uD803", "\\uDD81">>,
     <<"\\uD803", "\\uDD82">>, <<"\\uD803", "\\uDD83">>,
     <<"\\uD803", "\\uDD84">>, <<"\\uD803", "\\uDD85">>,
     <<"\\uD806", "\\uDCC0">>, <<"\\uD806", "\\uDCC1">>,
     <<"\\uD806", "\\uDCC2">>, <<"\\uD806", "\\uDCC3">>,
     <<"\\uD806", "\\uDCC4">>, <<"\\uD806", "\\uDCC5">>,
     <<"\\uD806", "\\uDCC6">>, <<"\\uD806", "\\uDCC7">>,
     <<"\\uD806", "\\uDCC8">>, <<"\\uD806", "\\uDCC9">>,
     <<"\\uD806", "\\uDCCA">>, <<"\\uD806", "\\uDCCB">>,
     <<"\\uD806", "\\uDCCC">>, <<"\\uD806", "\\uDCCD">>,
     <<"\\uD806", "\\uDCCE">>, <<"\\uD806", "\\uDCCF">>,
     <<"\\uD806", "\\uDCD0">>, <<"\\uD806", "\\uDCD1">>,
     <<"\\uD806", "\\uDCD2">>, <<"\\uD806", "\\uDCD3">>,
     <<"\\uD806", "\\uDCD4">>, <<"\\uD806", "\\uDCD5">>,
     <<"\\uD806", "\\uDCD6">>, <<"\\uD806", "\\uDCD7">>,
     <<"\\uD806", "\\uDCD8">>, <<"\\uD806", "\\uDCD9">>,
     <<"\\uD806", "\\uDCDA">>, <<"\\uD806", "\\uDCDB">>,
     <<"\\uD806", "\\uDCDC">>, <<"\\uD806", "\\uDCDD">>,
     <<"\\uD806", "\\uDCDE">>, <<"\\uD806", "\\uDCDF">>,
     <<"\\uD81B", "\\uDE60">>, <<"\\uD81B", "\\uDE61">>,
     <<"\\uD81B", "\\uDE62">>, <<"\\uD81B", "\\uDE63">>,
     <<"\\uD81B", "\\uDE64">>, <<"\\uD81B", "\\uDE65">>,
     <<"\\uD81B", "\\uDE66">>, <<"\\uD81B", "\\uDE67">>,
     <<"\\uD81B", "\\uDE68">>, <<"\\uD81B", "\\uDE69">>,
     <<"\\uD81B", "\\uDE6A">>, <<"\\uD81B", "\\uDE6B">>,
     <<"\\uD81B", "\\uDE6C">>, <<"\\uD81B", "\\uDE6D">>,
     <<"\\uD81B", "\\uDE6E">>, <<"\\uD81B", "\\uDE6F">>,
     <<"\\uD81B", "\\uDE70">>, <<"\\uD81B", "\\uDE71">>,
     <<"\\uD81B", "\\uDE72">>, <<"\\uD81B", "\\uDE73">>,
     <<"\\uD81B", "\\uDE74">>, <<"\\uD81B", "\\uDE75">>,
     <<"\\uD81B", "\\uDE76">>, <<"\\uD81B", "\\uDE77">>,
     <<"\\uD81B", "\\uDE78">>, <<"\\uD81B", "\\uDE79">>,
     <<"\\uD81B", "\\uDE7A">>, <<"\\uD81B", "\\uDE7B">>,
     <<"\\uD81B", "\\uDE7C">>, <<"\\uD81B", "\\uDE7D">>,
     <<"\\uD81B", "\\uDE7E">>, <<"\\uD81B", "\\uDE7F">>,
     <<"\\uD81B", "\\uDEBB">>, <<"\\uD81B", "\\uDEBC">>,
     <<"\\uD81B", "\\uDEBD">>, <<"\\uD81B", "\\uDEBE">>,
     <<"\\uD81B", "\\uDEBF">>, <<"\\uD81B", "\\uDEC0">>,
     <<"\\uD81B", "\\uDEC1">>, <<"\\uD81B", "\\uDEC2">>,
     <<"\\uD81B", "\\uDEC3">>, <<"\\uD81B", "\\uDEC4">>,
     <<"\\uD81B", "\\uDEC5">>, <<"\\uD81B", "\\uDEC6">>,
     <<"\\uD81B", "\\uDEC7">>, <<"\\uD81B", "\\uDEC8">>,
     <<"\\uD81B", "\\uDEC9">>, <<"\\uD81B", "\\uDECA">>,
     <<"\\uD81B", "\\uDECB">>, <<"\\uD81B", "\\uDECC">>,
     <<"\\uD81B", "\\uDECD">>, <<"\\uD81B", "\\uDECE">>,
     <<"\\uD81B", "\\uDECF">>, <<"\\uD81B", "\\uDED0">>,
     <<"\\uD81B", "\\uDED1">>, <<"\\uD81B", "\\uDED2">>,
     <<"\\uD81B", "\\uDED3">>, <<"\\uD83A", "\\uDD22">>,
     <<"\\uD83A", "\\uDD23">>, <<"\\uD83A", "\\uDD24">>,
     <<"\\uD83A", "\\uDD25">>, <<"\\uD83A", "\\uDD26">>,
     <<"\\uD83A", "\\uDD27">>, <<"\\uD83A", "\\uDD28">>,
     <<"\\uD83A", "\\uDD29">>, <<"\\uD83A", "\\uDD2A">>,
     <<"\\uD83A", "\\uDD2B">>, <<"\\uD83A", "\\uDD2C">>,
     <<"\\uD83A", "\\uDD2D">>, <<"\\uD83A", "\\uDD2E">>,
     <<"\\uD83A", "\\uDD2F">>, <<"\\uD83A", "\\uDD30">>,
     <<"\\uD83A", "\\uDD31">>, <<"\\uD83A", "\\uDD32">>,
     <<"\\uD83A", "\\uDD33">>, <<"\\uD83A", "\\uDD34">>,
     <<"\\uD83A", "\\uDD35">>, <<"\\uD83A", "\\uDD36">>,
     <<"\\uD83A", "\\uDD37">>, <<"\\uD83A", "\\uDD38">>,
     <<"\\uD83A", "\\uDD39">>, <<"\\uD83A", "\\uDD3A">>,
     <<"\\uD83A", "\\uDD3B">>, <<"\\uD83A", "\\uDD3C">>,
     <<"\\uD83A", "\\uDD3D">>, <<"\\uD83A", "\\uDD3E">>,
     <<"\\uD83A", "\\uDD3F">>, <<"\\uD83A", "\\uDD40">>,
     <<"\\uD83A", "\\uDD41">>, <<"\\uD83A", "\\uDD42">>,
     <<"\\uD83A", "\\uDD43">> >>

(* The code units of the basic plane that are cased without being in the   *)
(* mapping above or being case-ignorable.                                  *)
OtherCased ==
  { "ª", "µ", "º", "\\u0131", "\\u0138", "\\u0149", "\\u017F", "ƍ", "ƪ",
     "ƫ", "ƺ", "ƾ", "ǰ", "\\u0221", "\\u0234", "\\u0235", "\\u0236",
     "\\u0237", "\\u0238", "\\u0239", "\\u0255", "\\u0258", "\\u025A",
     "\\u025D", "\\u025E", "\\u025F", "\\u0262", "\\u0267", "\\u026D",
     "\\u026E", "\\u0270", "\\u0273", "\\u0274", "\\u0276", "\\u0277",
     "\\u0278", "\\u0279", "\\u027A", "\\u027B", "\\u027C", "\\u027E",
     "\\u027F", "ʁ", "ʄ", "ʅ", "ʆ", "ʍ", "ʎ", "ʏ", "ʐ", "ʑ", "ʓ", "ʖ", "ʗ",
     "ʘ", "ʙ", "ʚ", "ʛ", "ʜ", "ʟ", "ʠ", "ʡ", "ʢ", "ʣ", "ʤ", "ʥ", "ʦ", "ʧ",
     "ʨ", "ʩ", "ʪ", "ʫ", "ʬ", "ʭ", "ʮ", "ʯ", "ΐ", "ΰ", "ς", "ϐ", "ϑ", "ϒ",
     "ϓ", "ϔ", "ϕ", "ϖ", "ϰ", "ϱ", "ϵ", "ϼ", "\\u0560", "և", "ֈ", "ᲀ", "ᲁ",
     "ᲂ", "ᲃ", "ᲄ", "ᲅ", "ᲆ", "ᲇ", "ᲈ", "\\u1D00", "\\u1D01", "\\u1D02",
     "\\u1D03", "\\u1D04", "\\u1D05", "\\u1D06", "\\u1D07", "\\u1D08",
     "\\u1D09", "\\u1D0A", "\\u1D0B", "\\u1D0C", "\\u1D0D", "\\u1D0E",
     "\\u1D0F", "\\u1D10", "\\u1D11", "\\u1D12", "\\u1D13", "\\u1D14",
     "\\u1D15", "\\u1D16", "\\u1D17", "\\u1D18", "\\u1D19", "\\u1D1A",
     "\\u1D1B", "\\u1D1C", "\\u1D1D", "\\u1D1E", "\\u1D1F", "\\u1D20",
     "\\u1D21", "\\u1D22", "\\u1D23", "\\u1D24", "\\u1D25", "\\u1D26",
     "\\u1D27", "\\u1D28", "\\u1D29", "\\u1D2A", "\\u1D2B", "\\u1D6B",
     "\\u1D6C", "\\u1D6D", "\\u1D6E", "\\u1D6F", "\\u1D70", "\\u1D71",
     "\\u1D72", "\\u1D73", "\\u1D74", "\\u1D75", "\\u1D76", "\\u1D77",
     "\\u1D7A", "\\u1D7B", "\\u1D7C", "\\u1D7E", "\\u1D7F", "ᶀ", "ᶁ", "ᶂ",
     "ᶃ", "ᶄ", "ᶅ", "ᶆ", "ᶇ", "ᶈ", "ᶉ", "ᶊ", "ᶋ", "ᶌ", "ᶍ", "ᶏ", "ᶐ", "ᶑ",
     "ᶒ", "ᶓ", "ᶔ", "ᶕ", "ᶖ", "ᶗ", "ᶘ", "ᶙ", "ᶚ", "ẖ", "ẗ", "ẘ", "ẙ", "ẚ",
     "ẛ", "ẜ", "ẝ", "ẟ", "\\u1F50", "\\u1F52", "\\u1F54", "\\u1F56", "ᾲ",
     "ᾴ", "ᾶ", "ᾷ", "ι", "ῂ", "ῄ", "ῆ", "ῇ", "ῒ", "ΐ", "ῖ", "ῗ", "ῢ", "ΰ",
     "ῤ", "ῦ", "ῧ", "ῲ", "ῴ", "ῶ", "ῷ", "\\u2102", "\\u2107", "\\u210A",
     "\\u210B", "\\u210C", "\\u210D", "\\u210E", "\\u210F", "\\u2110",
     "\\u2111", "\\u2112", "\\u2113", "\\u2115", "\\u2119", "\\u211A",
     "\\u211B", "\\u211C", "\\u211D", "\\u2124", "\\u2128", "\\u212C",
     "\\u212D", "\\u212F", "\\u2130", "\\u2131", "\\u2133", "\\u2134",
     "\\u2139", "\\u213C", "\\u213D", "\\u213E", "\\u213F", "\\u2145",
     "\\u2146", "\\u2147", "\\u2148", "\\u2149", "\\u2C71", "\\u2C74",
     "\\u2C77", "\\u2C78", "\\u2C79", "\\u2C7A", "\\u2C7B", "ⳤ", "\\uA730",
     "\\uA731", "\\uA771", "\\uA772", "\\uA773", "\\uA774", "\\uA775",
     "\\uA776", "\\uA777", "\\uA778", "ꞎ", "ꞕ", "ꞯ", "ꟺ", "\\uAB30",
     "\\uAB31", "\\uAB32", "\\uAB33", "\\uAB34", "\\uAB35", "\\uAB36",
     "\\uAB37", "\\uAB38", "\\uAB39", "\\uAB3A", "\\uAB3B", "\\uAB3C",
     "\\uAB3D", "\\uAB3E", "\\uAB3F", "\\uAB40", "\\uAB41", "\\uAB42",
     "\\uAB43", "\\uAB44", "\\uAB45", "\\uAB46", "\\uAB47", "\\uAB48",
     "\\uAB49", "\\uAB4A", "\\uAB4B", "\\uAB4C", "\\uAB4D", "\\uAB4E",
     "\\uAB4F", "\\uAB50", "\\uAB51", "\\uAB52", "\\uAB54", "\\uAB55",
     "\\uAB56", "\\uAB57", "\\uAB58", "\\uAB59", "\\uAB5A", "\\uAB60",
     "\\uAB61", "\\uAB62", "\\uAB63", "\\uAB64", "\\uAB65", "\\uAB66",
     "\\uAB67", "\\uAB68", "\\uFB00", "\\uFB01", "\\uFB02", "\\uFB03",
     "\\uFB04", "\\uFB05", "\\uFB06", "\\uFB13", "\\uFB14", "\\uFB15",
     "\\uFB16", "\\uFB17" }

\* The case-ignorable code units of the basic plane
CaseIgnorable ==
  { "'", ".", ":", "^", "\\u0060", "¨", "­", "¯", "´", "·", "¸", "ʰ", "ʱ",
     "ʲ", "ʳ", "ʴ", "ʵ", "ʶ", "ʷ", "ʸ", "ʹ", "ʺ", "ʻ", "ʼ", "ʽ", "ʾ", "ʿ",
     "ˀ", "ˁ", "˂", "˃", "˄", "˅", "ˆ", "ˇ", "ˈ", "ˉ", "ˊ", "ˋ", "ˌ", "ˍ",
     "ˎ", "ˏ", "ː", "ˑ", "˒", "˓", "˔", "˕", "˖", "˗", "˘", "˙", "˚", "˛",
     "˜", "˝", "˞", "˟", "ˠ", "ˡ", "ˢ", "ˣ", "ˤ", "˥", "˦", "˧", "˨", "˩",
     "˪", "˫", "ˬ", "˭", "ˮ", "˯", "˰", "˱", "˲", "˳", "˴", "˵", "˶", "˷",
     "˸", "˹", "˺", "˻", "˼", "˽", "˾", "˿", "\\u0300", "\\u0301",
     "\\u0302", "\\u0303", "\\u0304", "\\u0305", "\\u0306", "\\u0307",
     "\\u0308", "\\u0309", "\\u030A", "\\u030B", "\\u030C", "\\u030D",
     "\\u030E", "\\u030F", "\\u0310", "\\u0311", "\\u0312", "\\u0313",
     "\\u0314", "\\u0315", "\\u0316", "\\u0317", "\\u0318", "\\u0319",
     "\\u031A", "\\u031B", "\\u031C", "\\u031D", "\\u031E", "\\u031F",
     "\\u0320", "\\u0321", "\\u0322", "\\u0323", "\\u0324", "\\u0325",
     "\\u0326", "\\u0327", "\\u0328", "\\u0329", "\\u032A", "\\u032B",
     "\\u032C", "\\u032D", "\\u032E", "\\u032F", "\\u0330", "\\u0331",
     "\\u0332", "\\u0333", "\\u0334", "\\u0335", "\\u0336", "\\u0337",
     "\\u0338", "\\u0339", "\\u033A", "\\u033B", "\\u033C", "\\u033D",
     "\\u033E", "\\u033F", "\\u0340", "\\u0341", "\\u0342", "\\u0343",
     "\\u0344", "\\u0345", "\\u0346", "\\u0347", "\\u0348", "\\u0349",
     "\\u034A", "\\u034B", "\\u034C", "\\u034D", "\\u034E", "\\u034F",
     "\\u0350", "\\u0351", "\\u0352", "\\u0353", "\\u0354", "\\u0355",
     "\\u0356", "\\u0357", "\\u0358", "\\u0359", "\\u035A", "\\u035B",
     "\\u035C", "\\u035D", "\\u035E", "\\u035F", "\\u0360", "\\u0361",
     "\\u0362", "\\u0363", "\\u0364", "\\u0365", "\\u0366", "\\u0367",
     "\\u0368", "\\u0369", "\\u036A", "\\u036B", "\\u036C", "\\u036D",
     "\\u036E", "\\u036F", "\\u0374", "\\u0375", "\\u037A", "΄", "΅", "·",
     "҃", "҄", "҅", "҆", "҇", "҈", "҉", "\\u0559", "\\u055F", "֑", "֒",
     "֓", "֔", "֕", "֖", "֗", "֘", "֙", "֚", "֛", "֜", "֝", "֞", "֟", "֠",
     "֡", "֢", "֣", "֤", "֥", "֦", "֧", "֨", "֩", "֪", "֫", "֬", "֭", "֮",
     "֯", "ְ", "ֱ", "ֲ", "ֳ", "ִ", "ֵ", "ֶ", "ַ", "ָ", "ֹ", "ֺ", "ֻ", "ּ",
     "ֽ", "ֿ", "ׁ", "ׂ", "ׄ", "ׅ", "ׇ", "״", "\\u0600", "\\u0601",
     "\\u0602", "\\u0603", "\\u0604", "\\u0605", "\\u0610", "\\u0611",
     "\\u0612", "\\u0613", "\\u0614", "\\u0615", "\\u0616", "\\u0617",
     "\\u0618", "\\u0619", "\\u061A", "\\u061C", "\\u0640", "\\u064B",
     "\\u064C", "\\u064D", "\\u064E", "\\u064F", "\\u0650", "\\u0651",
     "\\u0652", "\\u0653", "\\u0654", "\\u0655", "\\u0656", "\\u0657",
     "\\u0658", "\\u0659", "\\u065A", "\\u065B", "\\u065C", "\\u065D",
     "\\u065E", "\\u065F", "\\u0670", "ۖ", "ۗ", "ۘ", "ۙ", "ۚ", "ۛ", "ۜ",
     "۝", "۟", "۠", "ۡ", "ۢ", "ۣ", "ۤ", "ۥ", "ۦ", "ۧ", "ۨ", "۪", "۫", "۬",
     "ۭ", "\\u070F", "\\u0711", "\\u0730", "\\u0731", "\\u0732", "\\u0733",
     "\\u0734", "\\u0735", "\\u0736", "\\u0737", "\\u0738", "\\u0739",
     "\\u073A", "\\u073B", "\\u073C", "\\u073D", "\\u073E", "\\u073F",
     "\\u0740", "\\u0741", "\\u0742", "\\u0743", "\\u0744", "\\u0745",
     "\\u0746", "\\u0747", "\\u0748", "\\u0749", "\\u074A", "ަ", "ާ", "ި",
     "ީ", "ު", "ޫ", "ެ", "ޭ", "ޮ", "ޯ", "ް", "߫", "߬", "߭", "߮", "߯", "߰",
     "߱", "߲", "߳", "ߴ", "ߵ", "ߺ", "߽", "\\u0816", "\\u0817", "\\u0818",
     "\\u0819", "\\u081A", "\\u081B", "\\u081C", "\\u081D", "\\u081E",
     "\\u081F", "\\u0820", "\\u0821", "\\u0822", "\\u0823", "\\u0824",
     "\\u0825", "\\u0826", "\\u0827", "\\u0828", "\\u0829", "\\u082A",
     "\\u082B", "\\u082C", "\\u082D", "\\u0859", "\\u085A", "\\u085B", "࢈",
     "࢐", "࢑", "ࢗ", "࢘", "࢙", "࢚", "࢛", "࢜", "࢝", "࢞", "࢟", "ࣉ", "࣊", "࣋",
     "࣌", "࣍", "࣎", "࣏", "࣐", "࣑", "࣒", "࣓", "ࣔ", "ࣕ", "ࣖ", "ࣗ", "ࣘ", "ࣙ",
     "ࣚ", "ࣛ", "ࣜ", "ࣝ", "ࣞ", "ࣟ", "࣠", "࣡", "࣢", "ࣣ", "ࣤ", "ࣥ", "ࣦ", "ࣧ",
     "ࣨ", "ࣩ", "࣪", "࣫", "࣬", "࣭", "࣮", "࣯", "ࣰ", "ࣱ", "ࣲ", "ࣳ", "ࣴ", "ࣵ",
     "ࣶ", "ࣷ", "ࣸ", "ࣹ", "ࣺ", "ࣻ", "ࣼ", "ࣽ", "ࣾ", "ࣿ", "\\u0900",
     "\\u0901", "\\u0902", "\\u093A", "\\u093C", "\\u0941", "\\u0942",
     "\\u0943", "\\u0944", "\\u0945", "\\u0946", "\\u0947", "\\u0948",
     "\\u094D", "\\u0951", "\\u0952", "\\u0953", "\\u0954", "\\u0955",
     "\\u0956", "\\u0957", "\\u0962", "\\u0963", "\\u0971", "ঁ", "়", "ু",
     "ূ", "ৃ", "ৄ", "্", "ৢ", "ৣ", "৾", "\\u0A01", "\\u0A02", "\\u0A3C",
     "\\u0A41", "\\u0A42", "\\u0A47", "\\u0A48", "\\u0A4B", "\\u0A4C",
     "\\u0A4D", "\\u0A51", "\\u0A70", "\\u0A71", "\\u0A75", "ઁ", "ં", "઼",
     "ુ", "ૂ", "ૃ", "ૄ", "ૅ", "ે", "ૈ", "્", "ૢ", "ૣ", "ૺ", "ૻ", "ૼ", "૽",
     "૾", "૿", "\\u0B01", "\\u0B3C", "\\u0B3F", "\\u0B41", "\\u0B42",
     "\\u0B43", "\\u0B44", "\\u0B4D", "\\u0B55", "\\u0B56", "\\u0B62",
     "\\u0B63", "ஂ", "ீ", "்", "\\u0C00", "\\u0C04", "\\u0C3C", "\\u0C3E",
     "\\u0C3F", "\\u0C40", "\\u0C46", "\\u0C47", "\\u0C48", "\\u0C4A",
     "\\u0C4B", "\\u0C4C", "\\u0C4D", "\\u0C55", "\\u0C56", "\\u0C62",
     "\\u0C63", "ಁ", "಼", "ಿ", "ೆ", "ೌ", "್", "ೢ", "ೣ", "\\u0D00",
     "\\u0D01", "\\u0D3B", "\\u0D3C", "\\u0D41", "\\u0D42", "\\u0D43",
     "\\u0D44", "\\u0D4D", "\\u0D62", "\\u0D63", "ඁ", "්", "ි", "ී", "ු",
     "ූ", "\\u0E31", "\\u0E34", "\\u0E35", "\\u0E36", "\\u0E37", "\\u0E38",
     "\\u0E39", "\\u0E3A", "\\u0E46", "\\u0E47", "\\u0E48", "\\u0E49",
     "\\u0E4A", "\\u0E4B", "\\u0E4C", "\\u0E4D", "\\u0E4E", "ັ", "ິ", "ີ",
     "ຶ", "ື", "ຸ", "ູ", "຺", "ົ", "ຼ", "ໆ", "່", "້", "໊", "໋", "໌", "ໍ",
     "໎", "\\u0F18", "\\u0F19", "\\u0F35", "\\u0F37", "\\u0F39", "\\u0F71",
     "\\u0F72", "\\u0F73", "\\u0F74", "\\u0F75", "\\u0F76", "\\u0F77",
     "\\u0F78", "\\u0F79", "\\u0F7A", "\\u0F7B", "\\u0F7C", "\\u0F7D",
     "\\u0F7E", "ྀ", "ཱྀ", "ྂ", "ྃ", "྄", "྆", "྇", "ྍ", "ྎ", "ྏ", "ྐ", "ྑ",
     "ྒ", "ྒྷ", "ྔ", "ྕ", "ྖ", "ྗ", "ྙ", "ྚ", "ྛ", "ྜ", "ྜྷ", "ྞ", "ྟ", "ྠ",
     "ྡ", "ྡྷ", "ྣ", "ྤ", "ྥ", "ྦ", "ྦྷ", "ྨ", "ྩ", "ྪ", "ྫ", "ྫྷ", "ྭ", "ྮ",
     "ྯ", "ྰ", "ྱ", "ྲ", "ླ", "ྴ", "ྵ", "ྶ", "ྷ", "ྸ", "ྐྵ", "ྺ", "ྻ", "ྼ",
     "࿆", "\\u102D", "\\u102E", "\\u102F", "\\u1030", "\\u1032", "\\u1033",
     "\\u1034", "\\u1035", "\\u1036", "\\u1037", "\\u1039", "\\u103A",
     "\\u103D", "\\u103E", "\\u1058", "\\u1059", "\\u105E", "\\u105F",
     "\\u1060", "\\u1071", "\\u1072", "\\u1073", "\\u1074", "ႂ", "ႅ", "ႆ",
     "ႍ", "ႝ", "ჼ", "\\u135D", "\\u135E", "\\u135F", "\\u1712", "\\u1713",
     "\\u1714", "\\u1732", "\\u1733", "\\u1752", "\\u1753", "\\u1772",
     "\\u1773", "឴", "឵", "ិ", "ី", "ឹ", "ឺ", "ុ", "ូ", "ួ", "ំ", "៉", "៊",
     "់", "៌", "៍", "៎", "៏", "័", "៑", "្", "៓", "ៗ", "៝", "\\u180B",
     "\\u180C", "\\u180D", "\\u180E", "\\u180F", "\\u1843", "ᢅ", "ᢆ", "ᢩ",
     "\\u1920", "\\u1921", "\\u1922", "\\u1927", "\\u1928", "\\u1932",
     "\\u1939", "\\u193A", "\\u193B", "\\u1A17", "\\u1A18", "\\u1A1B",
     "\\u1A56", "\\u1A58", "\\u1A59", "\\u1A5A", "\\u1A5B", "\\u1A5C",
     "\\u1A5D", "\\u1A5E", "\\u1A60", "\\u1A62", "\\u1A65", "\\u1A66",
     "\\u1A67", "\\u1A68", "\\u1A69", "\\u1A6A", "\\u1A6B", "\\u1A6C",
     "\\u1A73", "\\u1A74", "\\u1A75", "\\u1A76", "\\u1A77", "\\u1A78",
     "\\u1A79", "\\u1A7A", "\\u1A7B", "\\u1A7C", "\\u1A7F", "ᪧ", "᪰", "᪱",
     "᪲", "᪳", "᪴", "᪵", "᪶", "᪷", "᪸", "᪹", "᪺", "᪻", "᪼", "᪽", "᪾", "ᪿ",
     "ᫀ", "᫁", "᫂", "᫃", "᫄", "᫅", "᫆", "᫇", "᫈", "᫉", "᫊", "᫋", "ᫌ", "ᫍ",
     "ᫎ", "᫏", "᫐", "᫑", "᫒", "᫓", "᫔", "᫕", "᫖", "᫗", "᫘", "᫙", "᫚", "᫛",
     "᫜", "᫝", "᫠", "᫡", "᫢", "᫣", "᫤", "᫥", "᫦", "᫧", "᫨", "᫩", "᫪", "᫫",
     "\\u1B00", "\\u1B01", "\\u1B02", "\\u1B03", "\\u1B34", "\\u1B36",
     "\\u1B37", "\\u1B38", "\\u1B39", "\\u1B3A", "\\u1B3C", "\\u1B42",
     "\\u1B6B", "\\u1B6C", "\\u1B6D", "\\u1B6E", "\\u1B6F", "\\u1B70",
     "\\u1B71", "\\u1B72", "\\u1B73", "ᮀ", "ᮁ", "ᮢ", "ᮣ", "ᮤ", "ᮥ", "ᮨ",
     "ᮩ", "᮫", "ᮬ", "ᮭ", "᯦", "ᯨ", "ᯩ", "ᯭ", "ᯯ", "ᯰ", "ᯱ", "\\u1C2C",
     "\\u1C2D", "\\u1C2E", "\\u1C2F", "\\u1C30", "\\u1C31", "\\u1C32",
     "\\u1C33", "\\u1C36", "\\u1C37", "\\u1C78", "\\u1C79", "\\u1C7A",
     "\\u1C7B", "\\u1C7C", "\\u1C7D", "᳐", "᳑", "᳒", "᳔", "᳕", "᳖", "᳗",
     "᳘", "᳙", "᳚", "᳛", "᳜", "᳝", "᳞", "᳟", "᳠", "᳢", "᳣", "᳤", "᳥", "᳦",
     "᳧", "᳨", "᳭", "᳴", "᳸", "᳹", "\\u1D2C", "\\u1D2D", "\\u1D2E",
     "\\u1D2F", "\\u1D30", "\\u1D31", "\\u1D32", "\\u1D33", "\\u1D34",
     "\\u1D35", "\\u1D36", "\\u1D37", "\\u1D38", "\\u1D39", "\\u1D3A",
     "\\u1D3B", "\\u1D3C", "\\u1D3D", "\\u1D3E", "\\u1D3F", "\\u1D40",
     "\\u1D41", "\\u1D42", "\\u1D43", "\\u1D44", "\\u1D45", "\\u1D46",
     "\\u1D47", "\\u1D48", "\\u1D49", "\\u1D4A", "\\u1D4B", "\\u1D4C",
     "\\u1D4D", "\\u1D4E", "\\u1D4F", "\\u1D50", "\\u1D51", "\\u1D52",
     "\\u1D53", "\\u1D54", "\\u1D55", "\\u1D56", "\\u1D57", "\\u1D58",
     "\\u1D59", "\\u1D5A", "\\u1D5B", "\\u1D5C", "\\u1D5D", "\\u1D5E",
     "\\u1D5F", "\\u1D60", "\\u1D61", "\\u1D62", "\\u1D63", "\\u1D64",
     "\\u1D65", "\\u1D66", "\\u1D67", "\\u1D68", "\\u1D69", "\\u1D6A",
     "\\u1D78", "ᶛ", "ᶜ", "ᶝ", "ᶞ", "ᶟ", "ᶠ", "ᶡ", "ᶢ", "ᶣ", "ᶤ", "ᶥ", "ᶦ",
     "ᶧ", "ᶨ", "ᶩ", "ᶪ", "ᶫ", "ᶬ", "ᶭ", "ᶮ", "ᶯ", "ᶰ", "ᶱ", "ᶲ", "ᶳ", "ᶴ",
     "ᶵ", "ᶶ", "ᶷ", "ᶸ", "ᶹ", "ᶺ", "ᶻ", "ᶼ", "ᶽ", "ᶾ", "ᶿ", "᷀", "᷁", "᷂",
     "᷃", "᷄", "᷅", "᷆", "᷇", "᷈", "᷉", "᷊", "᷋", "᷌", "᷍", "᷎", "᷏", "᷐",
     "᷑", "᷒", "ᷓ", "ᷔ", "ᷕ", "ᷖ", "ᷗ", "ᷘ", "ᷙ", "ᷚ", "ᷛ", "ᷜ", "ᷝ", "ᷞ",
     "ᷟ", "ᷠ", "ᷡ", "ᷢ", "ᷣ", "ᷤ", "ᷥ", "ᷦ", "ᷧ", "ᷨ", "ᷩ", "ᷪ", "ᷫ", "ᷬ",
     "ᷭ", "ᷮ", "ᷯ", "ᷰ", "ᷱ", "ᷲ", "ᷳ", "ᷴ", "᷵", "᷶", "᷷", "᷸", "᷹", "᷺",
     "᷻", "᷼", "᷽", "᷾", "᷿", "᾽", "᾿", "῀", "῁", "῍", "῎", "῏", "῝", "῞",
     "῟", "῭", "΅", "`", "´", "῾", "\\u200B", "\\u200C", "\\u200D",
     "\\u200E", "\\u200F", "\\u2018", "\\u2019", "\\u2024", "\\u2027",
     "\\u202A", "\\u202B", "\\u202C", "\\u202D", "\\u202E", "\\u2060",
     "\\u2061", "\\u2062", "\\u2063", "\\u2064", "\\u2066", "\\u2067",
     "\\u2068", "\\u2069", "\\u206A", "\\u206B", "\\u206C", "\\u206D",
     "\\u206E", "\\u206F", "\\u2071", "\\u207F", "ₐ", "ₑ", "ₒ", "ₓ", "ₔ",
     "ₕ", "ₖ", "ₗ", "ₘ", "ₙ", "ₚ", "ₛ", "ₜ", "⃐", "⃑", "⃒", "⃓", "⃔", "⃕",
     "⃖", "⃗", "⃘", "⃙", "⃚", "⃛", "⃜", "⃝", "⃞", "⃟", "⃠", "⃡", "⃢", "⃣",
     "⃤", "⃥", "⃦", "⃧", "⃨", "⃩", "⃪", "⃫", "⃬", "⃭", "⃮", "⃯", "⃰",
     "\\u2C7C", "\\u2C7D", "⳯", "⳰", "⳱", "\\u2D6F", "\\u2D7F", "ⷠ", "ⷡ",
     "ⷢ", "ⷣ", "ⷤ", "ⷥ", "ⷦ", "ⷧ", "ⷨ", "ⷩ", "ⷪ", "ⷫ", "ⷬ", "ⷭ", "ⷮ", "ⷯ",
     "ⷰ", "ⷱ", "ⷲ", "ⷳ", "ⷴ", "ⷵ", "ⷶ", "ⷷ", "ⷸ", "ⷹ", "ⷺ", "ⷻ", "ⷼ", "ⷽ",
     "ⷾ", "ⷿ", "\\u2E2F", "\\u3005", "\\u302A", "\\u302B", "\\u302C",
     "\\u302D", "\\u3031", "\\u3032", "\\u3033", "\\u3034", "\\u3035",
     "\\u303B", "゙", "゚", "゛", "゜", "ゝ", "ゞ", "ー", "ヽ", "ヾ", "\\uA015",
     "ꓸ", "ꓹ", "ꓺ", "ꓻ", "ꓼ", "ꓽ", "\\uA60C", "\\uA66F", "\\uA670",
     "\\uA671", "\\uA672", "\\uA674", "\\uA675", "\\uA676", "\\uA677",
     "\\uA678", "\\uA679", "\\uA67A", "\\uA67B", "\\uA67C", "\\uA67D",
     "\\uA67F", "ꚜ", "ꚝ", "ꚞ", "ꚟ", "꛰", "꛱", "\\uA700", "\\uA701",
     "\\uA702", "\\uA703", "\\uA704", "\\uA705", "\\uA706", "\\uA707",
     "\\uA708", "\\uA709", "\\uA70A", "\\uA70B", "\\uA70C", "\\uA70D",
     "\\uA70E", "\\uA70F", "\\uA710", "\\uA711", "\\uA712", "\\uA713",
     "\\uA714", "\\uA715", "\\uA716", "\\uA717", "\\uA718", "\\uA719",
     "\\uA71A", "\\uA71B", "\\uA71C", "\\uA71D", "\\uA71E", "\\uA71F",
     "\\uA720", "\\uA721", "\\uA770", "ꞈ", "꞉", "꞊", "꟱", "ꟲ", "ꟳ", "ꟴ",
     "ꟸ", "ꟹ", "\\uA802", "\\uA806", "\\uA80B", "\\uA825", "\\uA826",
     "\\uA82C", "꣄", "ꣅ", "꣠", "꣡", "꣢", "꣣", "꣤", "꣥", "꣦", "꣧", "꣨", "꣩",
     "꣪", "꣫", "꣬", "꣭", "꣮", "꣯", "꣰", "꣱", "ꣿ", "\\uA926", "\\uA927",
     "\\uA928", "\\uA929", "\\uA92A", "\\uA92B", "\\uA92C", "\\uA92D",
     "\\uA947", "\\uA948", "\\uA949", "\\uA94A", "\\uA94B", "\\uA94C",
     "\\uA94D", "\\uA94E", "\\uA94F", "\\uA950", "\\uA951", "ꦀ", "ꦁ", "ꦂ",
     "꦳", "ꦶ", "ꦷ", "ꦸ", "ꦹ", "ꦼ", "ꦽ", "ꧏ", "ꧥ", "ꧦ", "\\uAA29",
     "\\uAA2A", "\\uAA2B", "\\uAA2C", "\\uAA2D", "\\uAA2E", "\\uAA31",
     "\\uAA32", "\\uAA35", "\\uAA36", "\\uAA43", "\\uAA4C", "\\uAA70",
     "\\uAA7C", "ꪰ", "ꪲ", "ꪳ", "ꪴ", "ꪷ", "ꪸ", "ꪾ", "꪿", "꫁", "ꫝ", "ꫬ", "ꫭ",
     "ꫳ", "ꫴ", "꫶", "\\uAB5B", "\\uAB5C", "\\uAB5D", "\\uAB5E", "\\uAB5F",
     "\\uAB69", "\\uAB6A", "\\uAB6B", "ꯥ", "ꯨ", "꯭", "\\uFB1E", "﮲", "﮳",
     "﮴", "﮵", "﮶", "﮷", "﮸", "﮹", "﮺", "﮻", "﮼", "﮽", "﮾", "﮿", "﯀", "﯁",
     "﯂", "\\uFE00", "\\uFE01", "\\uFE02", "\\uFE03", "\\uFE04", "\\uFE05",
     "\\uFE06", "\\uFE07", "\\uFE08", "\\uFE09", "\\uFE0A", "\\uFE0B",
     "\\uFE0C", "\\uFE0D", "\\uFE0E", "\\uFE0F", "\\uFE13", "\\uFE20",
     "\\uFE21", "\\uFE22", "\\uFE23", "\\uFE24", "\\uFE25", "\\uFE26",
     "\\uFE27", "\\uFE28", "\\uFE29", "\\uFE2A", "\\uFE2B", "\\uFE2C",
     "\\uFE2D", "\\uFE2E", "\\uFE2F", "\\uFE52", "\\uFE55", "﻿", "\\uFF07",
     "\\uFF0E", "\\uFF1A", "\\uFF3E", "\\uFF40", "\\uFF70", "ﾞ", "ﾟ", "￣",
     "￹", "￺", "￻" }

(* The surrogate code units: a character outside the basic plane is a high *)
(* surrogate followed by a low one, and its code point is counted from     *)
(* U+10000 by 1024 for the high unit and by one for the low unit.          *)
HighSurrogates ==
  << "\\uD800", "\\uD801", "\\uD802", "\\uD803", "\\uD804", "\\uD805",
     "\\uD806", "\\uD807", "\\uD808", "\\uD809", "\\uD80A", "\\uD80B",
     "\\uD80C", "\\uD80D", "\\uD80E", "\\uD80F", "\\uD810", "\\uD811",
     "\\uD812", "\\uD813", "\\uD814", "\\uD815", "\\uD816", "\\uD817",
     "\\uD818", "\\uD819", "\\uD81A", "\\uD81B", "\\uD81C", "\\uD81D",
     "\\uD81E", "\\uD81F", "\\uD820", "\\uD821", "\\uD822", "\\uD823",
     "\\uD824", "\\uD825", "\\uD826", "\\uD827", "\\uD828", "\\uD829",
     "\\uD82A", "\\uD82B", "\\uD82C", "\\uD82D", "\\uD82E", "\\uD82F",
     "\\uD830", "\\uD831", "\\uD832", "\\uD833", "\\uD834", "\\uD835",
     "\\uD836", "\\uD837", "\\uD838", "\\uD839", "\\uD83A", "\\uD83B",
     "\\uD83C", "\\uD83D", "\\uD83E", "\\uD83F", "\\uD840", "\\uD841",
     "\\uD842", "\\uD843", "\\uD844", "\\uD845", "\\uD846", "\\uD847",
     "\\uD848", "\\uD849", "\\uD84A", "\\uD84B", "\\uD84C", "\\uD84D",
     "\\uD84E", "\\uD84F", "\\uD850", "\\uD851", "\\uD852", "\\uD853",
     "\\uD854", "\\uD855", "\\uD856", "\\uD857", "\\uD858", "\\uD859",
     "\\uD85A", "\\uD85B", "\\uD85C", "\\uD85D", "\\uD85E", "\\uD85F",
     "\\uD860", "\\uD861", "\\uD862", "\\uD863", "\\uD864", "\\uD865",
     "\\uD866", "\\uD867", "\\uD868", "\\uD869", "\\uD86A", "\\uD86B",
     "\\uD86C", "\\uD86D", "\\uD86E", "\\uD86F", "\\uD870", "\\uD871",
     "\\uD872", "\\uD873", "\\uD874", "\\uD875", "\\uD876", "\\uD877",
     "\\uD878", "\\uD879", "\\uD87A", "\\uD87B", "\\uD87C", "\\uD87D",
     "\\uD87E", "\\uD87F", "\\uD880", "\\uD881", "\\uD882", "\\uD883",
     "\\uD884", "\\uD885", "\\uD886", "\\uD887", "\\uD888", "\\uD889",
     "\\uD88A", "\\uD88B", "\\uD88C", "\\uD88D", "\\uD88E", "\\uD88F",
     "\\uD890", "\\uD891", "\\uD892", "\\uD893", "\\uD894", "\\uD895",
     "\\uD896", "\\uD897", "\\uD898", "\\uD899", "\\uD89A", "\\uD89B",
     "\\uD89C", "\\uD89D", "\\uD89E", "\\uD89F", "\\uD8A0", "\\uD8A1",
     "\\uD8A2", "\\uD8A3", "\\uD8A4", "\\uD8A5", "\\uD8A6", "\\uD8A7",
     "\\uD8A8", "\\uD8A9", "\\uD8AA", "\\uD8AB", "\\uD8AC", "\\uD8AD",
     "\\uD8AE", "\\uD8AF", "\\uD8B0", "\\uD8B1", "\\uD8B2", "\\uD8B3",
     "\\uD8B4", "\\uD8B5", "\\uD8B6", "\\uD8B7", "\\uD8B8", "\\uD8B9",
     "\\uD8BA", "\\uD8BB", "\\uD8BC", "\\uD8BD", "\\uD8BE", "\\uD8BF",
     "\\uD8C0", "\\uD8C1", "\\uD8C2", "\\uD8C3", "\\uD8C4", "\\uD8C5",
     "\\uD8C6", "\\uD8C7", "\\uD8C8", "\\uD8C9", "\\uD8CA", "\\uD8CB",
     "\\uD8CC", "\\uD8CD", "\\uD8CE", "\\uD8CF", "\\uD8D0", "\\uD8D1",
     "\\uD8D2", "\\uD8D3", "\\uD8D4", "\\uD8D5", "\\uD8D6", "\\uD8D7",
     "\\uD8D8", "\\uD8D9", "\\uD8DA", "\\uD8DB", "\\uD8DC", "\\uD8DD",
     "\\uD8DE", "\\uD8DF", "\\uD8E0", "\\uD8E1", "\\uD8E2", "\\uD8E3",
     "\\uD8E4", "\\uD8E5", "\\uD8E6", "\\uD8E7", "\\uD8E8", "\\uD8E9",
     "\\uD8EA", "\\uD8EB", "\\uD8EC", "\\uD8ED", "\\uD8EE", "\\uD8EF",
     "\\uD8F0", "\\uD8F1", "\\uD8F2", "\\uD8F3", "\\uD8F4", "\\uD8F5",
     "\\uD8F6", "\\uD8F7", "\\uD8F8", "\\uD8F9", "\\uD8FA", "\\uD8FB",
     "\\uD8FC", "\\uD8FD", "\\uD8FE", "\\uD8FF", "\\uD900", "\\uD901",
     "\\uD902", "\\uD903", "\\uD904", "\\uD905", "\\uD906", "\\uD907",
     "\\uD908", "\\uD909", "\\uD90A", "\\uD90B", "\\uD90C", "\\uD90D",
     "\\uD90E", "\\uD90F", "\\uD910", "\\uD911", "\\uD912", "\\uD913",
     "\\uD914", "\\uD915", "\\uD916", "\\uD917", "\\uD918", "\\uD919",
     "\\uD91A", "\\uD91B", "\\uD91C", "\\uD91D", "\\uD91E", "\\uD91F",
     "\\uD920", "\\uD921", "\\uD922", "\\uD923", "\\uD924", "\\uD925",
     "\\uD926", "\\uD927", "\\uD928", "\\uD929", "\\uD92A", "\\uD92B",
     "\\uD92C", "\\uD92D", "\\uD92E", "\\uD92F", "\\uD930", "\\uD931",
     "\\uD932", "\\uD933", "\\uD934", "\\uD935", "\\uD936", "\\uD937",
     "\\uD938", "\\uD939", "\\uD93A", "\\uD93B", "\\uD93C", "\\uD93D",
     "\\uD93E", "\\uD93F", "\\uD940", "\\uD941", "\\uD942", "\\uD943",
     "\\uD944", "\\uD945", "\\uD946", "\\uD947", "\\uD948", "\\uD949",
     "\\uD94A", "\\uD94B", "\\uD94C", "\\uD94D", "\\uD94E", "\\uD94F",
     "\\uD950", "\\uD951", "\\uD952", "\\uD953", "\\uD954", "\\uD955",
     "\\uD956", "\\uD957", "\\uD958", "\\uD959", "\\uD95A", "\\uD95B",
     "\\uD95C", "\\uD95D", "\\uD95E", "\\uD95F", "\\uD960", "\\uD961",
     "\\uD962", "\\uD963", "\\uD964", "\\uD965", "\\uD966", "\\uD967",
     "\\uD968", "\\uD969", "\\uD96A", "\\uD96B", "\\uD96C", "\\uD96D",
     "\\uD96E", "\\uD96F", "\\uD970", "\\uD971", "\\uD972", "\\uD973",
     "\\uD974", "\\uD975", "\\uD976", "\\uD977", "\\uD978", "\\uD979",
     "\\uD97A", "\\uD97B", "\\uD97C", "\\uD97D", "\\uD97E", "\\uD97F",
     "\\uD980", "\\uD981", "\\uD982", "\\uD983", "\\uD984", "\\uD985",
     "\\uD986", "\\uD987", "\\uD988", "\\uD989", "\\uD98A", "\\uD98B",
     "\\uD98C", "\\uD98D", "\\uD98E", "\\uD98F", "\\uD990", "\\uD991",
     "\\uD992", "\\uD993", "\\uD994", "\\uD995", "\\uD996", "\\uD997",
     "\\uD998", "\\uD999", "\\uD99A", "\\uD99B", "\\uD99C", "\\uD99D",
     "\\uD99E", "\\uD99F", "\\uD9A0", "\\uD9A1", "\\uD9A2", "\\uD9A3",
     "\\uD9A4", "\\uD9A5", "\\uD9A6", "\\uD9A7", "\\uD9A8", "\\uD9A9",
     "\\uD9AA", "\\uD9AB", "\\uD9AC", "\\uD9AD", "\\uD9AE", "\\uD9AF",
     "\\uD9B0", "\\uD9B1", "\\uD9B2", "\\uD9B3", "\\uD9B4", "\\uD9B5",
     "\\uD9B6", "\\uD9B7", "\\uD9B8", "\\uD9B9", "\\uD9BA", "\\uD9BB",
     "\\uD9BC", "\\uD9BD", "\\uD9BE", "\\uD9BF", "\\uD9C0", "\\uD9C1",
     "\\uD9C2", "\\uD9C3", "\\uD9C4", "\\uD9C5", "\\uD9C6", "\\uD9C7",
     "\\uD9C8", "\\uD9C9", "\\uD9CA", "\\uD9CB", "\\uD9CC", "\\uD9CD",
     "\\uD9CE", "\\uD9CF", "\\uD9D0", "\\uD9D1", "\\uD9D2", "\\uD9D3",
     "\\uD9D4", "\\uD9D5", "\\uD9D6", "\\uD9D7", "\\uD9D8", "\\uD9D9",
     "\\uD9DA", "\\uD9DB", "\\uD9DC", "\\uD9DD", "\\uD9DE", "\\uD9DF",
     "\\uD9E0", "\\uD9E1", "\\uD9E2", "\\uD9E3", "\\uD9E4", "\\uD9E5",
     "\\uD9E6", "\\uD9E7", "\\uD9E8", "\\uD9E9", "\\uD9EA", "\\uD9EB",
     "\\uD9EC", "\\uD9ED", "\\uD9EE", "\\uD9EF", "\\uD9F0", "\\uD9F1",
     "\\uD9F2", "\\uD9F3", "\\uD9F4", "\\uD9F5", "\\uD9F6", "\\uD9F7",
     "\\uD9F8", "\\uD9F9", "\\uD9FA", "\\uD9FB", "\\uD9FC", "\\uD9FD",
     "\\uD9FE", "\\uD9FF", "\\uDA00", "\\uDA01", "\\uDA02", "\\uDA03",
     "\\uDA04", "\\uDA05", "\\uDA06", "\\uDA07", "\\uDA08", "\\uDA09",
     "\\uDA0A", "\\uDA0B", "\\uDA0C", "\\uDA0D", "\\uDA0E", "\\uDA0F",
     "\\uDA10", "\\uDA11", "\\uDA12", "\\uDA13", "\\uDA14", "\\uDA15",
     "\\uDA16", "\\uDA17", "\\uDA18", "\\uDA19", "\\uDA1A", "\\uDA1B",
     "\\uDA1C", "\\uDA1D", "\\uDA1E", "\\uDA1F", "\\uDA20", "\\uDA21",
     "\\uDA22", "\\uDA23", "\\uDA24", "\\uDA25", "\\uDA26", "\\uDA27",
     "\\uDA28", "\\uDA29", "\\uDA2A", "\\uDA2B", "\\uDA2C", "\\uDA2D",
     "\\uDA2E", "\\uDA2F", "\\uDA30", "\\uDA31", "\\uDA32", "\\uDA33",
     "\\uDA34", "\\uDA35", "\\uDA36", "\\uDA37", "\\uDA38", "\\uDA39",
     "\\uDA3A", "\\uDA3B", "\\uDA3C", "\\uDA3D", "\\uDA3E", "\\uDA3F",
     "\\uDA40", "\\uDA41", "\\uDA42", "\\uDA43", "\\uDA44", "\\uDA45",
     "\\uDA46", "\\uDA47", "\\uDA48", "\\uDA49", "\\uDA4A", "\\uDA4B",
     "\\uDA4C", "\\uDA4D", "\\uDA4E", "\\uDA4F", "\\uDA50", "\\uDA51",
     "\\uDA52", "\\uDA53", "\\uDA54", "\\uDA55", "\\uDA56", "\\uDA57",
     "\\uDA58", "\\uDA59", "\\uDA5A", "\\uDA5B", "\\uDA5C", "\\uDA5D",
     "\\uDA5E", "\\uDA5F", "\\uDA60", "\\uDA61", "\\uDA62", "\\uDA63",
     "\\uDA64", "\\uDA65", "\\uDA66", "\\uDA67", "\\uDA68", "\\uDA69",
     "\\uDA6A", "\\uDA6B", "\\uDA6C", "\\uDA6D", "\\uDA6E", "\\uDA6F",
     "\\uDA70", "\\uDA71", "\\uDA72", "\\uDA73", "\\uDA74", "\\uDA75",
     "\\uDA76", "\\uDA77", "\\uDA78", "\\uDA79", "\\uDA7A", "\\uDA7B",
     "\\uDA7C", "\\uDA7D", "\\uDA7E", "\\uDA7F", "\\uDA80", "\\uDA81",
     "\\uDA82", "\\uDA83", "\\uDA84", "\\uDA85", "\\uDA86", "\\uDA87",
     "\\uDA88", "\\uDA89", "\\uDA8A", "\\uDA8B", "\\uDA8C", "\\uDA8D",
     "\\uDA8E", "\\uDA8F", "\\uDA90", "\\uDA91", "\\uDA92", "\\uDA93",
     "\\uDA94", "\\uDA95", "\\uDA96", "\\uDA97", "\\uDA98", "\\uDA99",
     "\\uDA9A", "\\uDA9B", "\\uDA9C", "\\uDA9D", "\\uDA9E", "\\uDA9F",
     "\\uDAA0", "\\uDAA1", "\\uDAA2", "\\uDAA3", "\\uDAA4", "\\uDAA5",
     "\\uDAA6", "\\uDAA7", "\\uDAA8", "\\uDAA9", "\\uDAAA", "\\uDAAB",
     "\\uDAAC", "\\uDAAD", "\\uDAAE", "\\uDAAF", "\\uDAB0", "\\uDAB1",
     "\\uDAB2", "\\uDAB3", "\\uDAB4", "\\uDAB5", "\\uDAB6", "\\uDAB7",
     "\\uDAB8", "\\uDAB9", "\\uDABA", "\\uDABB", "\\uDABC", "\\uDABD",
     "\\uDABE", "\\uDABF", "\\uDAC0", "\\uDAC1", "\\uDAC2", "\\uDAC3",
     "\\uDAC4", "\\uDAC5", "\\uDAC6", "\\uDAC7", "\\uDAC8", "\\uDAC9",
     "\\uDACA", "\\uDACB", "\\uDACC", "\\uDACD", "\\uDACE", "\\uDACF",
     "\\uDAD0", "\\uDAD1", "\\uDAD2", "\\uDAD3", "\\uDAD4", "\\uDAD5",
     "\\uDAD6", "\\uDAD7", "\\uDAD8", "\\uDAD9", "\\uDADA", "\\uDADB",
     "\\uDADC", "\\uDADD", "\\uDADE", "\\uDADF", "\\uDAE0", "\\uDAE1",
     "\\uDAE2", "\\uDAE3", "\\uDAE4", "\\uDAE5", "\\uDAE6", "\\uDAE7",
     "\\uDAE8", "\\uDAE9", "\\uDAEA", "\\uDAEB", "\\uDAEC", "\\uDAED",
     "\\uDAEE", "\\uDAEF", "\\uDAF0", "\\uDAF1", "\\uDAF2", "\\uDAF3",
     "\\uDAF4", "\\uDAF5", "\\uDAF6", "\\uDAF7", "\\uDAF8", "\\uDAF9",
     "\\uDAFA", "\\uDAFB", "\\uDAFC", "\\uDAFD", "\\uDAFE", "\\uDAFF",
     "\\uDB00", "\\uDB01", "\\uDB02", "\\uDB03", "\\uDB04", "\\uDB05",
     "\\uDB06", "\\uDB07", "\\uDB08", "\\uDB09", "\\uDB0A", "\\uDB0B",
     "\\uDB0C", "\\uDB0D", "\\uDB0E", "\\uDB0F", "\\uDB10", "\\uDB11",
     "\\uDB12", "\\uDB13", "\\uDB14", "\\uDB15", "\\uDB16", "\\uDB17",
     "\\uDB18", "\\uDB19", "\\uDB1A", "\\uDB1B", "\\uDB1C", "\\uDB1D",
     "\\uDB1E", "\\uDB1F", "\\uDB20", "\\uDB21", "\\uDB22", "\\uDB23",
     "\\uDB24", "\\uDB25", "\\uDB26", "\\uDB27", "\\uDB28", "\\uDB29",
     "\\uDB2A", "\\uDB2B", "\\uDB2C", "\\uDB2D", "\\uDB2E", "\\uDB2F",
     "\\uDB30", "\\uDB31", "\\uDB32", "\\uDB33", "\\uDB34", "\\uDB35",
     "\\uDB36", "\\uDB37", "\\uDB38", "\\uDB39", "\\uDB3A", "\\uDB3B",
     "\\uDB3C", "\\uDB3D", "\\uDB3E", "\\uDB3F", "\\uDB40", "\\uDB41",
     "\\uDB42", "\\uDB43", "\\uDB44", "\\uDB45", "\\uDB46", "\\uDB47",
     "\\uDB48", "\\uDB49", "\\uDB4A", "\\uDB4B", "\\uDB4C", "\\uDB4D",
     "\\uDB4E", "\\uDB4F", "\\uDB50", "\\uDB51", "\\uDB52", "\\uDB53",
     "\\uDB54", "\\uDB55", "\\uDB56", "\\uDB57", "\\uDB58", "\\uDB59",
     "\\uDB5A", "\\uDB5B", "\\uDB5C", "\\uDB5D", "\\uDB5E", "\\uDB5F",
     "\\uDB60", "\\uDB61", "\\uDB62", "\\uDB63", "\\uDB64", "\\uDB65",
     "\\uDB66", "\\uDB67", "\\uDB68", "\\uDB69", "\\uDB6A", "\\uDB6B",
     "\\uDB6C", "\\uDB6D", "\\uDB6E", "\\uDB6F", "\\uDB70", "\\uDB71",
     "\\uDB72", "\\uDB73", "\\uDB74", "\\uDB75", "\\uDB76", "\\uDB77",
     "\\uDB78", "\\uDB79", "\\uDB7A", "\\uDB7B", "\\uDB7C", "\\uDB7D",
     "\\uDB7E", "\\uDB7F", "\\uDB80", "\\uDB81", "\\uDB82", "\\uDB83",
     "\\uDB84", "\\uDB85", "\\uDB86", "\\uDB87", "\\uDB88", "\\uDB89",
     "\\uDB8A", "\\uDB8B", "\\uDB8C", "\\uDB8D", "\\uDB8E", "\\uDB8F",
     "\\uDB90", "\\uDB91", "\\uDB92", "\\uDB93", "\\uDB94", "\\uDB95",
     "\\uDB96", "\\uDB97", "\\uDB98", "\\uDB99", "\\uDB9A", "\\uDB9B",
     "\\uDB9C", "\\uDB9D", "\\uDB9E", "\\uDB9F", "\\uDBA0", "\\uDBA1",
     "\\uDBA2", "\\uDBA3", "\\uDBA4", "\\uDBA5", "\\uDBA6", "\\uDBA7",
     "\\uDBA8", "\\uDBA9", "\\uDBAA", "\\uDBAB", "\\uDBAC", "\\uDBAD",
     "\\uDBAE", "\\uDBAF", "\\uDBB0", "\\uDBB1", "\\uDBB2", "\\uDBB3",
     "\\uDBB4", "\\uDBB5", "\\uDBB6", "\\uDBB7", "\\uDBB8", "\\uDBB9",
     "\\uDBBA", "\\uDBBB", "\\uDBBC", "\\uDBBD", "\\uDBBE", "\\uDBBF",
     "\\uDBC0", "\\uDBC1", "\\uDBC2", "\\uDBC3", "\\uDBC4", "\\uDBC5",
     "\\uDBC6", "\\uDBC7", "\\uDBC8", "\\uDBC9", "\\uDBCA", "\\uDBCB",
     "\\uDBCC", "\\uDBCD", "\\uDBCE", "\\uDBCF", "\\uDBD0", "\\uDBD1",
     "\\uDBD2", "\\uDBD3", "\\uDBD4", "\\uDBD5", "\\uDBD6", "\\uDBD7",
     "\\uDBD8", "\\uDBD9", "\\uDBDA", "\\uDBDB", "\\uDBDC", "\\uDBDD",
     "\\uDBDE", "\\uDBDF", "\\uDBE0", "\\uDBE1", "\\uDBE2", "\\uDBE3",
     "\\uDBE4", "\\uDBE5", "\\uDBE6", "\\uDBE7", "\\uDBE8", "\\uDBE9",
     "\\uDBEA", "\\uDBEB", "\\uDBEC", "\\uDBED", "\\uDBEE", "\\uDBEF",
     "\\uDBF0", "\\uDBF1", "\\uDBF2", "\\uDBF3", "\\uDBF4", "\\uDBF5",
     "\\uDBF6", "\\uDBF7", "\\uDBF8", "\\uDBF9", "\\uDBFA", "\\uDBFB",
     "\\uDBFC", "\\uDBFD", "\\uDBFE", "\\uDBFF" >>
LowSurrogates ==
  << "\\uDC00", "\\uDC01", "\\uDC02", "\\uDC03", "\\uDC04", "\\uDC05",
     "\\uDC06", "\\uDC07", "\\uDC08", "\\uDC09", "\\uDC0A", "\\uDC0B",
     "\\uDC0C", "\\uDC0D", "\\uDC0E", "\\uDC0F", "\\uDC10", "\\uDC11",
     "\\uDC12", "\\uDC13", "\\uDC14", "\\uDC15", "\\uDC16", "\\uDC17",
     "\\uDC18", "\\uDC19", "\\uDC1A", "\\uDC1B", "\\uDC1C", "\\uDC1D",
     "\\uDC1E", "\\uDC1F", "\\uDC20", "\\uDC21", "\\uDC22", "\\uDC23",
     "\\uDC24", "\\uDC25", "\\uDC26", "\\uDC27", "\\uDC28", "\\uDC29",
     "\\uDC2A", "\\uDC2B", "\\uDC2C", "\\uDC2D", "\\uDC2E", "\\uDC2F",
     "\\uDC30", "\\uDC31", "\\uDC32", "\\uDC33", "\\uDC34", "\\uDC35",
     "\\uDC36", "\\uDC37", "\\uDC38", "\\uDC39", "\\uDC3A", "\\uDC3B",
     "\\uDC3C", "\\uDC3D", "\\uDC3E", "\\uDC3F", "\\uDC40", "\\uDC41",
     "\\uDC42", "\\uDC43", "\\uDC44", "\\uDC45", "\\uDC46", "\\uDC47",
     "\\uDC48", "\\uDC49", "\\uDC4A", "\\uDC4B", "\\uDC4C", "\\uDC4D",
     "\\uDC4E", "\\uDC4F", "\\uDC50", "\\uDC51", "\\uDC52", "\\uDC53",
     "\\uDC54", "\\uDC55", "\\uDC56", "\\uDC57", "\\uDC58", "\\uDC59",
     "\\uDC5A", "\\uDC5B", "\\uDC5C", "\\uDC5D", "\\uDC5E", "\\uDC5F",
     "\\uDC60", "\\uDC61", "\\uDC62", "\\uDC63", "\\uDC64", "\\uDC65",
     "\\uDC66", "\\uDC67", "\\uDC68", "\\uDC69", "\\uDC6A", "\\uDC6B",
     "\\uDC6C", "\\uDC6D", "\\uDC6E", "\\uDC6F", "\\uDC70", "\\uDC71",
     "\\uDC72", "\\uDC73", "\\uDC74", "\\uDC75", "\\uDC76", "\\uDC77",
     "\\uDC78", "\\uDC79", "\\uDC7A", "\\uDC7B", "\\uDC7C", "\\uDC7D",
     "\\uDC7E", "\\uDC7F", "\\uDC80", "\\uDC81", "\\uDC82", "\\uDC83",
     "\\uDC84", "\\uDC85", "\\uDC86", "\\uDC87", "\\uDC88", "\\uDC89",
     "\\uDC8A", "\\uDC8B", "\\uDC8C", "\\uDC8D", "\\uDC8E", "\\uDC8F",
     "\\uDC90", "\\uDC91", "\\uDC92", "\\uDC93", "\\uDC94", "\\uDC95",
     "\\uDC96", "\\uDC97", "\\uDC98", "\\uDC99", "\\uDC9A", "\\uDC9B",
     "\\uDC9C", "\\uDC9D", "\\uDC9E", "\\uDC9F", "\\uDCA0", "\\uDCA1",
     "\\uDCA2", "\\uDCA3", "\\uDCA4", "\\uDCA5", "\\uDCA6", "\\uDCA7",
     "\\uDCA8", "\\uDCA9", "\\uDCAA", "\\uDCAB", "\\uDCAC", "\\uDCAD",
     "\\uDCAE", "\\uDCAF", "\\uDCB0", "\\uDCB1", "\\uDCB2", "\\uDCB3",
     "\\uDCB4", "\\uDCB5", "\\uDCB6", "\\uDCB7", "\\uDCB8", "\\uDCB9",
     "\\uDCBA", "\\uDCBB", "\\uDCBC", "\\uDCBD", "\\uDCBE", "\\uDCBF",
     "\\uDCC0", "\\uDCC1", "\\uDCC2", "\\uDCC3", "\\uDCC4", "\\uDCC5",
     "\\uDCC6", "\\uDCC7", "\\uDCC8", "\\uDCC9", "\\uDCCA", "\\uDCCB",
     "\\uDCCC", "\\uDCCD", "\\uDCCE", "\\uDCCF", "\\uDCD0", "\\uDCD1",
     "\\uDCD2", "\\uDCD3", "\\uDCD4", "\\uDCD5", "\\uDCD6", "\\uDCD7",
     "\\uDCD8", "\\uDCD9", "\\uDCDA", "\\uDCDB", "\\uDCDC", "\\uDCDD",
     "\\uDCDE", "\\uDCDF", "\\uDCE0", "\\uDCE1", "\\uDCE2", "\\uDCE3",
     "\\uDCE4", "\\uDCE5", "\\uDCE6", "\\uDCE7", "\\uDCE8", "\\uDCE9",
     "\\uDCEA", "\\uDCEB", "\\uDCEC", "\\uDCED", "\\uDCEE", "\\uDCEF",
     "\\uDCF0", "\\uDCF1", "\\uDCF2", "\\uDCF3", "\\uDCF4", "\\uDCF5",
     "\\uDCF6", "\\uDCF7", "\\uDCF8", "\\uDCF9", "\\uDCFA", "\\uDCFB",
     "\\uDCFC", "\\uDCFD", "\\uDCFE", "\\uDCFF", "\\uDD00", "\\uDD01",
     "\\uDD02", "\\uDD03", "\\uDD04", "\\uDD05", "\\uDD06", "\\uDD07",
     "\\uDD08", "\\uDD09", "\\uDD0A", "\\uDD0B", "\\uDD0C", "\\uDD0D",
     "\\uDD0E", "\\uDD0F", "\\uDD10", "\\uDD11", "\\uDD12", "\\uDD13",
     "\\uDD14", "\\uDD15", "\\uDD16", "\\uDD17", "\\uDD18", "\\uDD19",
     "\\uDD1A", "\\uDD1B", "\\uDD1C", "\\uDD1D", "\\uDD1E", "\\uDD1F",
     "\\uDD20", "\\uDD21", "\\uDD22", "\\uDD23", "\\uDD24", "\\uDD25",
     "\\uDD26", "\\uDD27", "\\uDD28", "\\uDD29", "\\uDD2A", "\\uDD2B",
     "\\uDD2C", "\\uDD2D", "\\uDD2E", "\\uDD2F", "\\uDD30", "\\uDD31",
     "\\uDD32", "\\uDD33", "\\uDD34", "\\uDD35", "\\uDD36", "\\uDD37",
     "\\uDD38", "\\uDD39", "\\uDD3A", "\\uDD3B", "\\uDD3C", "\\uDD3D",
     "\\uDD3E", "\\uDD3F", "\\uDD40", "\\uDD41", "\\uDD42", "\\uDD43",
     "\\uDD44", "\\uDD45", "\\uDD46", "\\uDD47", "\\uDD48", "\\uDD49",
     "\\uDD4A", "\\uDD4B", "\\uDD4C", "\\uDD4D", "\\uDD4E", "\\uDD4F",
     "\\uDD50", "\\uDD51", "\\uDD52", "\\uDD53", "\\uDD54", "\\uDD55",
     "\\uDD56", "\\uDD57", "\\uDD58", "\\uDD59", "\\uDD5A", "\\uDD5B",
     "\\uDD5C", "\\uDD5D", "\\uDD5E", "\\uDD5F", "\\uDD60", "\\uDD61",
     "\\uDD62", "\\uDD63", "\\uDD64", "\\uDD65", "\\uDD66", "\\uDD67",
     "\\uDD68", "\\uDD69", "\\uDD6A", "\\uDD6B", "\\uDD6C", "\\uDD6D",
     "\\uDD6E", "\\uDD6F", "\\uDD70", "\\uDD71", "\\uDD72", "\\uDD73",
     "\\uDD74", "\\uDD75", "\\uDD76", "\\uDD77", "\\uDD78", "\\uDD79",
     "\\uDD7A", "\\uDD7B", "\\uDD7C", "\\uDD7D", "\\uDD7E", "\\uDD7F",
     "\\uDD80", "\\uDD81", "\\uDD82", "\\uDD83", "\\uDD84", "\\uDD85",
     "\\uDD86", "\\uDD87", "\\uDD88", "\\uDD89", "\\uDD8A", "\\uDD8B",
     "\\uDD8C", "\\uDD8D", "\\uDD8E", "\\uDD8F", "\\uDD90", "\\uDD91",
     "\\uDD92", "\\uDD93", "\\uDD94", "\\uDD95", "\\uDD96", "\\uDD97",
     "\\uDD98", "\\uDD99", "\\uDD9A", "\\uDD9B", "\\uDD9C", "\\uDD9D",
     "\\uDD9E", "\\uDD9F", "\\uDDA0", "\\uDDA1", "\\uDDA2", "\\uDDA3",
     "\\uDDA4", "\\uDDA5", "\\uDDA6", "\\uDDA7", "\\uDDA8", "\\uDDA9",
     "\\uDDAA", "\\uDDAB", "\\uDDAC", "\\uDDAD", "\\uDDAE", "\\uDDAF",
     "\\uDDB0", "\\uDDB1", "\\uDDB2", "\\uDDB3", "\\uDDB4", "\\uDDB5",
     "\\uDDB6", "\\uDDB7", "\\uDDB8", "\\uDDB9", "\\uDDBA", "\\uDDBB",
     "\\uDDBC", "\\uDDBD", "\\uDDBE", "\\uDDBF", "\\uDDC0", "\\uDDC1",
     "\\uDDC2", "\\uDDC3", "\\uDDC4", "\\uDDC5", "\\uDDC6", "\\uDDC7",
     "\\uDDC8", "\\uDDC9", "\\uDDCA", "\\uDDCB", "\\uDDCC", "\\uDDCD",
     "\\uDDCE", "\\uDDCF", "\\uDDD0", "\\uDDD1", "\\uDDD2", "\\uDDD3",
     "\\uDDD4", "\\uDDD5", "\\uDDD6", "\\uDDD7", "\\uDDD8", "\\uDDD9",
     "\\uDDDA", "\\uDDDB", "\\uDDDC", "\\uDDDD", "\\uDDDE", "\\uDDDF",
     "\\uDDE0", "\\uDDE1", "\\uDDE2", "\\uDDE3", "\\uDDE4", "\\uDDE5",
     "\\uDDE6", "\\uDDE7", "\\uDDE8", "\\uDDE9", "\\uDDEA", "\\uDDEB",
     "\\uDDEC", "\\uDDED", "\\uDDEE", "\\uDDEF", "\\uDDF0", "\\uDDF1",
     "\\uDDF2", "\\uDDF3", "\\uDDF4", "\\uDDF5", "\\uDDF6", "\\uDDF7",
     "\\uDDF8", "\\uDDF9", "\\uDDFA", "\\uDDFB", "\\uDDFC", "\\uDDFD",
     "\\uDDFE", "\\uDDFF", "\\uDE00", "\\uDE01", "\\uDE02", "\\uDE03",
     "\\uDE04", "\\uDE05", "\\uDE06", "\\uDE07", "\\uDE08", "\\uDE09",
     "\\uDE0A", "\\uDE0B", "\\uDE0C", "\\uDE0D", "\\uDE0E", "\\uDE0F",
     "\\uDE10", "\\uDE11", "\\uDE12", "\\uDE13", "\\uDE14", "\\uDE15",
     "\\uDE16", "\\uDE17", "\\uDE18", "\\uDE19", "\\uDE1A", "\\uDE1B",
     "\\uDE1C", "\\uDE1D", "\\uDE1E", "\\uDE1F", "\\uDE20", "\\uDE21",
     "\\uDE22", "\\uDE23", "\\uDE24", "\\uDE25", "\\uDE26", "\\uDE27",
     "\\uDE28", "\\uDE29", "\\uDE2A", "\\uDE2B", "\\uDE2C", "\\uDE2D",
     "\\uDE2E", "\\uDE2F", "\\uDE30", "\\uDE31", "\\uDE32", "\\uDE33",
     "\\uDE34", "\\uDE35", "\\uDE36", "\\uDE37", "\\uDE38", "\\uDE39",
     "\\uDE3A", "\\uDE3B", "\\uDE3C", "\\uDE3D", "\\uDE3E", "\\uDE3F",
     "\\uDE40", "\\uDE41", "\\uDE42", "\\uDE43", "\\uDE44", "\\uDE45",
     "\\uDE46", "\\uDE47", "\\uDE48", "\\uDE49", "\\uDE4A", "\\uDE4B",
     "\\uDE4C", "\\uDE4D", "\\uDE4E", "\\uDE4F", "\\uDE50", "\\uDE51",
     "\\uDE52", "\\uDE53", "\\uDE54", "\\uDE55", "\\uDE56", "\\uDE57",
     "\\uDE58", "\\uDE59", "\\uDE5A", "\\uDE5B", "\\uDE5C", "\\uDE5D",
     "\\uDE5E", "\\uDE5F", "\\uDE60", "\\uDE61", "\\uDE62", "\\uDE63",
     "\\uDE64", "\\uDE65", "\\uDE66", "\\uDE67", "\\uDE68", "\\uDE69",
     "\\uDE6A", "\\uDE6B", "\\uDE6C", "\\uDE6D", "\\uDE6E", "\\uDE6F",
     "\\uDE70", "\\uDE71", "\\uDE72", "\\uDE73", "\\uDE74", "\\uDE75",
     "\\uDE76", "\\uDE77", "\\uDE78", "\\uDE79", "\\uDE7A", "\\uDE7B",
     "\\uDE7C", "\\uDE7D", "\\uDE7E", "\\uDE7F", "\\uDE80", "\\uDE81",
     "\\uDE82", "\\uDE83", "\\uDE84", "\\uDE85", "\\uDE86", "\\uDE87",
     "\\uDE88", "\\uDE89", "\\uDE8A", "\\uDE8B", "\\uDE8C", "\\uDE8D",
     "\\uDE8E", "\\uDE8F", "\\uDE90", "\\uDE91", "\\uDE92", "\\uDE93",
     "\\uDE94", "\\uDE95", "\\uDE96", "\\uDE97", "\\uDE98", "\\uDE99",
     "\\uDE9A", "\\uDE9B", "\\uDE9C", "\\uDE9D", "\\uDE9E", "\\uDE9F",
     "\\uDEA0", "\\uDEA1", "\\uDEA2", "\\uDEA3", "\\uDEA4", "\\uDEA5",
     "\\uDEA6", "\\uDEA7", "\\uDEA8", "\\uDEA9", "\\uDEAA", "\\uDEAB",
     "\\uDEAC", "\\uDEAD", "\\uDEAE", "\\uDEAF", "\\uDEB0", "\\uDEB1",
     "\\uDEB2", "\\uDEB3", "\\uDEB4", "\\uDEB5", "\\uDEB6", "\\uDEB7",
     "\\uDEB8", "\\uDEB9", "\\uDEBA", "\\uDEBB", "\\uDEBC", "\\uDEBD",
     "\\uDEBE", "\\uDEBF", "\\uDEC0", "\\uDEC1", "\\uDEC2", "\\uDEC3",
     "\\uDEC4", "\\uDEC5", "\\uDEC6", "\\uDEC7", "\\uDEC8", "\\uDEC9",
     "\\uDECA", "\\uDECB", "\\uDECC", "\\uDECD", "\\uDECE", "\\uDECF",
     "\\uDED0", "\\uDED1", "\\uDED2", "\\uDED3", "\\uDED4", "\\uDED5",
     "\\uDED6", "\\uDED7", "\\uDED8", "\\uDED9", "\\uDEDA", "\\uDEDB",
     "\\uDEDC", "\\uDEDD", "\\uDEDE", "\\uDEDF", "\\uDEE0", "\\uDEE1",
     "\\uDEE2", "\\uDEE3", "\\uDEE4", "\\uDEE5", "\\uDEE6", "\\uDEE7",
     "\\uDEE8", "\\uDEE9", "\\uDEEA", "\\uDEEB", "\\uDEEC", "\\uDEED",
     "\\uDEEE", "\\uDEEF", "\\uDEF0", "\\uDEF1", "\\uDEF2", "\\uDEF3",
     "\\uDEF4", "\\uDEF5", "\\uDEF6", "\\uDEF7", "\\uDEF8", "\\uDEF9",
     "\\uDEFA", "\\uDEFB", "\\uDEFC", "\\uDEFD", "\\uDEFE", "\\uDEFF",
     "\\uDF00", "\\uDF01", "\\uDF02", "\\uDF03", "\\uDF04", "\\uDF05",
     "\\uDF06", "\\uDF07", "\\uDF08", "\\uDF09", "\\uDF0A", "\\uDF0B",
     "\\uDF0C", "\\uDF0D", "\\uDF0E", "\\uDF0F", "\\uDF10", "\\uDF11",
     "\\uDF12", "\\uDF13", "\\uDF14", "\\uDF15", "\\uDF16", "\\uDF17",
     "\\uDF18", "\\uDF19", "\\uDF1A", "\\uDF1B", "\\uDF1C", "\\uDF1D",
     "\\uDF1E", "\\uDF1F", "\\uDF20", "\\uDF21", "\\uDF22", "\\uDF23",
     "\\uDF24", "\\uDF25", "\\uDF26", "\\uDF27", "\\uDF28", "\\uDF29",
     "\\uDF2A", "\\uDF2B", "\\uDF2C", "\\uDF2D", "\\uDF2E", "\\uDF2F",
     "\\uDF30", "\\uDF31", "\\uDF32", "\\uDF33", "\\uDF34", "\\uDF35",
     "\\uDF36", "\\uDF37", "\\uDF38", "\\uDF39", "\\uDF3A", "\\uDF3B",
     "\\uDF3C", "\\uDF3D", "\\uDF3E", "\\uDF3F", "\\uDF40", "\\uDF41",
     "\\uDF42", "\\uDF43", "\\uDF44", "\\uDF45", "\\uDF46", "\\uDF47",
     "\\uDF48", "\\uDF49", "\\uDF4A", "\\uDF4B", "\\uDF4C", "\\uDF4D",
     "\\uDF4E", "\\uDF4F", "\\uDF50", "\\uDF51", "\\uDF52", "\\uDF53",
     "\\uDF54", "\\uDF55", "\\uDF56", "\\uDF57", "\\uDF58", "\\uDF59",
     "\\uDF5A", "\\uDF5B", "\\uDF5C", "\\uDF5D", "\\uDF5E", "\\uDF5F",
     "\\uDF60", "\\uDF61", "\\uDF62", "\\uDF63", "\\uDF64", "\\uDF65",
     "\\uDF66", "\\uDF67", "\\uDF68", "\\uDF69", "\\uDF6A", "\\uDF6B",
     "\\uDF6C", "\\uDF6D", "\\uDF6E", "\\uDF6F", "\\uDF70", "\\uDF71",
     "\\uDF72", "\\uDF73", "\\uDF74", "\\uDF75", "\\uDF76", "\\uDF77",
     "\\uDF78", "\\uDF79", "\\uDF7A", "\\uDF7B", "\\uDF7C", "\\uDF7D",
     "\\uDF7E", "\\uDF7F", "\\uDF80", "\\uDF81", "\\uDF82", "\\uDF83",
     "\\uDF84", "\\uDF85", "\\uDF86", "\\uDF87", "\\uDF88", "\\uDF89",
     "\\uDF8A", "\\uDF8B", "\\uDF8C", "\\uDF8D", "\\uDF8E", "\\uDF8F",
     "\\uDF90", "\\uDF91", "\\uDF92", "\\uDF93", "\\uDF94", "\\uDF95",
     "\\uDF96", "\\uDF97", "\\uDF98", "\\uDF99", "\\uDF9A", "\\uDF9B",
     "\\uDF9C", "\\uDF9D", "\\uDF9E", "\\uDF9F", "\\uDFA0", "\\uDFA1",
     "\\uDFA2", "\\uDFA3", "\\uDFA4", "\\uDFA5", "\\uDFA6", "\\uDFA7",
     "\\uDFA8", "\\uDFA9", "\\uDFAA", "\\uDFAB", "\\uDFAC", "\\uDFAD",
     "\\uDFAE", "\\uDFAF", "\\uDFB0", "\\uDFB1", "\\uDFB2", "\\uDFB3",
     "\\uDFB4", "\\uDFB5", "\\uDFB6", "\\uDFB7", "\\uDFB8", "\\uDFB9",
     "\\uDFBA", "\\uDFBB", "\\uDFBC", "\\uDFBD", "\\uDFBE", "\\uDFBF",
     "\\uDFC0", "\\uDFC1", "\\uDFC2", "\\uDFC3", "\\uDFC4", "\\uDFC5",
     "\\uDFC6", "\\uDFC7", "\\uDFC8", "\\uDFC9", "\\uDFCA", "\\uDFCB",
     "\\uDFCC", "\\uDFCD", "\\uDFCE", "\\uDFCF", "\\uDFD0", "\\uDFD1",
     "\\uDFD2", "\\uDFD3", "\\uDFD4", "\\uDFD5", "\\uDFD6", "\\uDFD7",
     "\\uDFD8", "\\uDFD9", "\\uDFDA", "\\uDFDB", "\\uDFDC", "\\uDFDD",
     "\\uDFDE", "\\uDFDF", "\\uDFE0", "\\uDFE1", "\\uDFE2", "\\uDFE3",
     "\\uDFE4", "\\uDFE5", "\\uDFE6", "\\uDFE7", "\\uDFE8", "\\uDFE9",
     "\\uDFEA", "\\uDFEB", "\\uDFEC", "\\uDFED", "\\uDFEE", "\\uDFEF",
     "\\uDFF0", "\\uDFF1", "\\uDFF2", "\\uDFF3", "\\uDFF4", "\\uDFF5",
     "\\uDFF6", "\\uDFF7", "\\uDFF8", "\\uDFF9", "\\uDFFA", "\\uDFFB",
     "\\uDFFC", "\\uDFFD", "\\uDFFE", "\\uDFFF" >>

\* The code point of the pair of code units h, l; 0 when they are no pair
PointOf(h, l) ==
  IF /\ \E k \in 1..1024 : HighSurrogates[k] = h
     /\ \E k \in 1..1024 : LowSurrogates[k] = l
    THEN \h10000
           + 1024 * ((CHOOSE k \in 1..1024 : HighSurrogates[k] = h) - 1)
           + (CHOOSE k \in 1..1024 : LowSurrogates[k] = l) - 1
    ELSE 0

(* The code points outside the basic plane that are cased without being in *)
(* the mapping of the pairs or being case-ignorable.                       *)
SupplementaryOtherCased ==
  (\h1D400..\h1D454) \cup (\h1D456..\h1D49C) \cup (\h1D49E..\h1D49F) \cup
  {\h1D4A2} \cup (\h1D4A5..\h1D4A6) \cup (\h1D4A9..\h1D4AC) \cup
  (\h1D4AE..\h1D4B9) \cup {\h1D4BB} \cup (\h1D4BD..\h1D4C3) \cup
  (\h1D4C5..\h1D505) \cup (\h1D507..\h1D50A) \cup (\h1D50D..\h1D514) \cup
  (\h1D516..\h1D51C) \cup (\h1D51E..\h1D539) \cup (\h1D53B..\h1D53E) \cup
  (\h1D540..\h1D544) \cup {\h1D546} \cup (\h1D54A..\h1D550) \cup
  (\h1D552..\h1D6A5) \cup (\h1D6A8..\h1D6C0) \cup (\h1D6C2..\h1D6DA) \cup
  (\h1D6DC..\h1D6FA) \cup (\h1D6FC..\h1D714) \cup (\h1D716..\h1D734) \cup
  (\h1D736..\h1D74E) \cup (\h1D750..\h1D76E) \cup (\h1D770..\h1D788) \cup
  (\h1D78A..\h1D7A8) \cup (\h1D7AA..\h1D7C2) \cup (\h1D7C4..\h1D7CB) \cup
  (\h1DF00..\h1DF09) \cup (\h1DF0B..\h1DF1E) \cup (\h1DF25..\h1DF2A) \cup
  (\h1F130..\h1F149) \cup (\h1F150..\h1F169) \cup (\h1F170..\h1F189)

\* The case-ignorable code points outside the basic plane
SupplementaryIgnorable ==
  {\h101FD} \cup {\h102E0} \cup (\h10376..\h1037A) \cup
  (\h10780..\h10785) \cup (\h10787..\h107B0) \cup (\h107B2..\h107BA) \cup
  (\h10A01..\h10A03) \cup (\h10A05..\h10A06) \cup (\h10A0C..\h10A0F) \cup
  (\h10A38..\h10A3A) \cup {\h10A3F} \cup (\h10AE5..\h10AE6) \cup
  (\h10D24..\h10D27) \cup {\h10D4E} \cup (\h10D69..\h10D6D) \cup
  {\h10D6F} \cup (\h10EAB..\h10EAC) \cup {\h10EC5} \cup
  (\h10EFA..\h10EFF) \cup (\h10F46..\h10F50) \cup (\h10F82..\h10F85) \cup
  {\h11001} \cup (\h11038..\h11046) \cup {\h11070} \cup
  (\h11073..\h11074) \cup (\h1107F..\h11081) \cup (\h110B3..\h110B6) \cup
  (\h110B9..\h110BA) \cup {\h110BD} \cup {\h110C2} \cup {\h110CD} \cup
  (\h11100..\h11102) \cup (\h11127..\h1112B) \cup (\h1112D..\h11134) \cup
  {\h11173} \cup (\h11180..\h11181) \cup (\h111B6..\h111BE) \cup
  (\h111C9..\h111CC) \cup {\h111CF} \cup (\h1122F..\h11231) \cup
  {\h11234} \cup (\h11236..\h11237) \cup {\h1123E} \cup {\h11241} \cup
  {\h112DF} \cup (\h112E3..\h112EA) \cup (\h11300..\h11301) \cup
  (\h1133B..\h1133C) \cup {\h11340} \cup (\h11366..\h1136C) \cup
  (\h11370..\h11374) \cup (\h113BB..\h113C0) \cup {\h113CE} \cup
  {\h113D0} \cup {\h113D2} \cup (\h113E1..\h113E2) \cup
  (\h11438..\h1143F) \cup (\h11442..\h11444) \cup {\h11446} \cup
  {\h1145E} \cup (\h114B3..\h114B8) \cup {\h114BA} \cup
  (\h114BF..\h114C0) \cup (\h114C2..\h114C3) \cup (\h115B2..\h115B5) \cup
  (\h115BC..\h115BD) \cup (\h115BF..\h115C0) \cup (\h115DC..\h115DD) \cup
  (\h11633..\h1163A) \cup {\h1163D} \cup (\h1163F..\h11640) \cup
  {\h116AB} \cup {\h116AD} \cup (\h116B0..\h116B5) \cup {\h116B7} \cup
  {\h1171D} \cup {\h1171F} \cup (\h11722..\h11725) \cup
  (\h11727..\h1172B) \cup (\h1182F..\h11837) \cup (\h11839..\h1183A) \cup
  (\h1193B..\h1193C) \cup {\h1193E} \cup {\h11943} \cup
  (\h119D4..\h119D7) \cup (\h119DA..\h119DB) \cup {\h119E0} \cup
  (\h11A01..\h11A0A) \cup (\h11A33..\h11A38) \cup (\h11A3B..\h11A3E) \cup
  {\h11A47} \cup (\h11A51..\h11A56) \cup (\h11A59..\h11A5B) \cup
  (\h11A8A..\h11A96) \cup (\h11A98..\h11A99) \cup {\h11B60} \cup
  (\h11B62..\h11B64) \cup {\h11B66} \cup (\h11C30..\h11C36) \cup
  (\h11C38..\h11C3D) \cup {\h11C3F} \cup (\h11C92..\h11CA7) \cup
  (\h11CAA..\h11CB0) \cup (\h11CB2..\h11CB3) \cup (\h11CB5..\h11CB6) \cup
  (\h11D31..\h11D36) \cup {\h11D3A} \cup (\h11D3C..\h11D3D) \cup
  (\h11D3F..\h11D45) \cup {\h11D47} \cup (\h11D90..\h11D91) \cup
  {\h11D95} \cup {\h11D97} \cup {\h11DD9} \cup (\h11EF3..\h11EF4) \cup
  (\h11F00..\h11F01) \cup (\h11F36..\h11F3A) \cup {\h11F40} \cup
  {\h11F42} \cup {\h11F5A} \cup (\h13430..\h13440) \cup
  (\h13447..\h13455) \cup (\h1611E..\h16129) \cup (\h1612D..\h1612F) \cup
  (\h16AF0..\h16AF4) \cup (\h16B30..\h16B36) \cup (\h16B40..\h16B43) \cup
  (\h16D40..\h16D42) \cup (\h16D6B..\h16D6C) \cup {\h16F4F} \cup
  (\h16F8F..\h16F9F) \cup (\h16FE0..\h16FE1) \cup (\h16FE3..\h16FE4) \cup
  (\h16FF2..\h16FF3) \cup (\h1AFF0..\h1AFF3) \cup (\h1AFF5..\h1AFFB) \cup
  (\h1AFFD..\h1AFFE) \cup (\h1BC9D..\h1BC9E) \cup (\h1BCA0..\h1BCA3) \cup
  (\h1CF00..\h1CF2D) \cup (\h1CF30..\h1CF46) \cup (\h1D167..\h1D169) \cup
  (\h1D173..\h1D182) \cup (\h1D185..\h1D18B) \cup (\h1D1AA..\h1D1AD) \cup
  (\h1D242..\h1D244) \cup (\h1DA00..\h1DA36) \cup (\h1DA3B..\h1DA6C) \cup
  {\h1DA75} \cup {\h1DA84} \cup (\h1DA9B..\h1DA9F) \cup
  (\h1DAA1..\h1DAAF) \cup (\h1E000..\h1E006) \cup (\h1E008..\h1E018) \cup
  (\h1E01B..\h1E021) \cup (\h1E023..\h1E024) \cup (\h1E026..\h1E02A) \cup
  (\h1E030..\h1E06D) \cup {\h1E08F} \cup (\h1E130..\h1E13D) \cup
  {\h1E2AE} \cup (\h1E2EC..\h1E2EF) \cup (\h1E4EB..\h1E4EF) \cup
  (\h1E5EE..\h1E5EF) \cup {\h1E6E3} \cup {\h1E6E6} \cup
  (\h1E6EE..\h1E6EF) \cup {\h1E6F5} \cup {\h1E6FF} \cup
  (\h1E8D0..\h1E8D6) \cup (\h1E944..\h1E94B) \cup (\h1F3FB..\h1F3FF) \cup
  {\hE0001} \cup (\hE0020..\hE007F) \cup (\hE0100..\hE01EF)

\* The function that takes from[i] to to[i]
MapOf(from, to) ==
  [c \in {from[i] : i \in 1..Len(from)} |->
     to[CHOOSE i \in 1..Len(from) : from[i] = c]]

(* The tables of a lower-casing: the mapping of the code units, that of    *)
(* the pairs, the cased and the case-ignorable code units, and the cased   *)
(* and the case-ignorable code points outside the basic plane              *)
CasingOf(lower, pairs, other, ignorable, otherPoints, ignorablePoints) ==
  [lower |-> lower, pairs |-> pairs, ignorable |-> ignorable,
   cased |-> (DOMAIN lower \cup {lower[c] : c \in DOMAIN lower} \cup other
                \cup {"\\u0130"}) \ ignorable,
   ignorablePoints |-> ignorablePoints,
   casedPoints |->
     ({PointOf(p[1], p[2]) : p \in DOMAIN pairs}
        \cup {PointOf(pairs[p][1], pairs[p][2]) : p \in DOMAIN pairs}
        \cup otherPoints) \ ignorablePoints]

Casing ==
  CasingOf(MapOf(UpperChars, LowerChars),
           MapOf(SupplementaryUpper, SupplementaryLower),
           OtherCased, CaseIgnorable,
           SupplementaryOtherCased, SupplementaryIgnorable)

(* What a character is for the condition Final_Sigma: case-ignorable,      *)
(* cased, or neither; a character that is both is case-ignorable.          *)
UnitKind(c, t) ==
  IF c \in t.ignorable THEN "ignorable"
  ELSE IF c \in t.cased THEN "cased"
  ELSE "none"
PointKind(p, t) ==
  IF p \in t.ignorablePoints THEN "ignorable"
  ELSE IF p \in t.casedPoints THEN "cased"
  ELSE "none"

(* The character of s that ends at index i, and the one that starts at     *)
(* index i: a surrogate pair is one character of two code units.           *)
CharOf(p, c, t) ==
  IF p # 0 THEN [len |-> 2, kind |-> PointKind(p, t)]
  ELSE [len |-> 1, kind |-> UnitKind(c, t)]
CharBefore(s, i, t) ==
  CharOf(IF i >= 2 THEN PointOf(s[i - 1], s[i]) ELSE 0, s[i], t)
CharFrom(s, i, t) ==
  CharOf(IF i < Len(s) THEN PointOf(s[i], s[i + 1]) ELSE 0, s[i], t)

\* Before index i, inclusive, come a cased letter and then case-ignorable
\* characters only
RECURSIVE FollowsCased(_, _, _)
FollowsCased(s, i, t) ==
  IF i < 1 THEN FALSE
  ELSE LET c == CharBefore(s, i, t)
       IN IF c.kind = "ignorable" THEN FollowsCased(s, i - c.len, t)
          ELSE c.kind = "cased"

\* From index i on come case-ignorable characters and then a cased letter
RECURSIVE PrecedesCased(_, _, _)
PrecedesCased(s, i, t) ==
  IF i > Len(s) THEN FALSE
  ELSE LET c == CharFrom(s, i, t)
       IN IF c.kind = "ignorable" THEN PrecedesCased(s, i + c.len, t)
          ELSE c.kind = "cased"

(* The condition Final_Sigma: the capital sigma at index i follows a cased *)
(* letter and no cased letter follows it, case-ignorable characters        *)
(* skipped on both sides.                                                  *)
FinalSigma(s, i, t) == FollowsCased(s, i - 1, t) /\ ~PrecedesCased(s, i + 1, t)

\* s from index i on in lower case by the tables t
RECURSIVE LowerFrom(_, _, _)
LowerFrom(s, i, t) ==
  IF i > Len(s) THEN <<>>
  ELSE IF s[i] = "Σ"
    THEN <<IF FinalSigma(s, i, t) THEN "ς" ELSE "σ">> \o LowerFrom(s, i + 1, t)
  ELSE IF s[i] = "\\u0130"
    THEN <<"i", "\\u0307">> \o LowerFrom(s, i + 1, t)
  ELSE IF i < Len(s) /\ <<s[i], s[i + 1]>> \in DOMAIN t.pairs
    THEN t.pairs[<<s[i], s[i + 1]>>] \o LowerFrom(s, i + 2, t)
  ELSE IF s[i] \in DOMAIN t.lower
    THEN <<t.lower[s[i]]>> \o LowerFrom(s, i + 1, t)
  ELSE <<s[i]>> \o LowerFrom(s, i + 1, t)

(* String.prototype.toLowerCase: the lower-case mapping of each character, *)
(* a capital sigma that ends a word becoming the final sigma and the       *)
(* dotted capital I becoming i with a combining dot above.                 *)
ToLowerCase(s) == LowerFrom(s, 1, Casing)

\* String.prototype.includes
Includes(s, q) ==
  \E i \in 0..(Len(s) - Len(q)) : SubSeq(s, i + 1, i + Len(q)) = q

\* The truthiness of a value
Truthy(v) ==
  CASE v.t \in {"undefined", "null"} -> FALSE
    [] v.t = "string" -> v.s # <<>>
    [] v.t = "number" ->
         CASE v.n.k = "nan" -> FALSE
           [] v.n.k = "dec" -> v.n.int # <<>> \/ v.n.frac # <<>>
           [] v.n.k = "fin" -> v.n.hi # 0 \/ v.n.lo # 0
           [] OTHER -> TRUE
    [] OTHER -> TRUE

\* A member of a record assembled from a document, undefined when missing
Field(r, k) == IF k \in DOMAIN r THEN r[k] ELSE Undef

\* value ?? "" for a text member
TextOrEmpty(v) == IF IsNullish(v) THEN <<>> ELSE v.s

\* The sign of a - b for fraction digit sequences read after the point
RECURSIVE FracCompare(_, _)
FracCompare(a, b) ==
  IF a = <<>> /\ b = <<>> THEN 0
  ELSE LET x == IF a = <<>> THEN 0 ELSE a[1]
           y == IF b = <<>> THEN 0 ELSE b[1]
       IN IF x < y THEN -1
          ELSE IF x > y THEN 1
          ELSE FracCompare(IF a = <<>> THEN <<>> ELSE Tail(a),
                           IF b = <<>> THEN <<>> ELSE Tail(b))

MagCompare(a, b) ==
  IF BigCompare(a.int, b.int) # 0 THEN BigCompare(a.int, b.int)
  ELSE FracCompare(a.frac, b.frac)

\* The sign of a - b for two decimals
DecCompare(a, b) ==
  IF a.neg /\ ~b.neg THEN -1
  ELSE IF ~a.neg /\ b.neg THEN 1
  ELSE IF a.neg THEN -MagCompare(a, b)
  ELSE MagCompare(a, b)

\* The base of the prefix 0x, 0o or 0b of t, 0 without one
PrefixBase(t) ==
  IF Len(t) < 2 \/ t[1] # "0" THEN 0
  ELSE IF t[2] \in {"x", "X"} THEN 16
  ELSE IF t[2] \in {"o", "O"} THEN 8
  ELSE IF t[2] \in {"b", "B"} THEN 2
  ELSE 0

\* An exponent of more than four digits is as good as 9999
ExponentOf(s, from, to) ==
  LET ds == StripLeadingZeros(DigitSeq(s, from, to))
  IN IF Len(ds) > 4 THEN 9999 ELSE DigitsVal(s, from, to)

(* A decimal literal [+-]digits[.digits][e[+-]digits] or [+-]Infinity; one *)
(* of the digit runs beside the point must have a digit.  The literal is   *)
(* read from left to right: the digits from i to e1, the point, the        *)
(* fraction up to e2, the exponent from j to e3.                           *)
DecimalParts(t, neg, int, frac, e2, hasExp, j, e3) ==
  IF int = <<>> /\ frac = <<>> THEN NaN
  ELSE IF hasExp /\ (e3 < j \/ e3 # Len(t)) THEN NaN
  ELSE IF ~hasExp /\ e2 # Len(t) THEN NaN
  ELSE Big("DoubleOfDecimal",
           <<neg, int, frac,
             IF ~hasExp THEN 0
             ELSE IF t[j - 1] = "-" THEN -ExponentOf(t, j, e3)
             ELSE ExponentOf(t, j, e3)>>)

DecimalAfterFraction(t, neg, int, frac, e2, hasExp, j) ==
  DecimalParts(t, neg, int, frac, e2, hasExp, j, DigitRunEnd(t, j))

DecimalAfterPoint(t, neg, i, e1, point, e2) ==
  DecimalAfterFraction(t, neg, DigitSeq(t, i, e1),
                       IF point THEN DigitSeq(t, e1 + 2, e2) ELSE <<>>, e2,
                       e2 + 1 <= Len(t) /\ t[e2 + 1] \in {"e", "E"},
                       IF e2 + 2 <= Len(t) /\ t[e2 + 2] \in {"+", "-"}
                         THEN e2 + 3 ELSE e2 + 2)

DecimalAfterInt(t, neg, i, e1, point) ==
  DecimalAfterPoint(t, neg, i, e1, point,
                    IF point THEN DigitRunEnd(t, e1 + 2) ELSE e1)

DecimalFrom(t, neg, i, e1) ==
  DecimalAfterInt(t, neg, i, e1, e1 + 1 <= Len(t) /\ t[e1 + 1] = ".")

DecimalAfterSign(t, neg, i) ==
  IF SubSeq(t, i, Len(t)) = <<"I", "n", "f", "i", "n", "i", "t", "y">>
    THEN (IF neg THEN NegInfinity ELSE Infinity)
    ELSE DecimalFrom(t, neg, i, DigitRunEnd(t, i))

DecimalLiteral(t) ==
  DecimalAfterSign(t, t[1] = "-", IF t[1] \in {"+", "-"} THEN 2 ELSE 1)

\* The number of the trimmed text t with the base of its prefix
NumberOfLiteral(t, base) ==
  IF t = <<>> THEN DecOf(FALSE, <<>>, <<>>)
  ELSE IF base # 0 THEN
    IF Len(t) > 2 /\ \A i \in 3..Len(t) : DigitOfBase(t[i], base) >= 0
      THEN Big("DoubleOfBase", <<t, 3, Len(t), base>>)
      ELSE NaN
  ELSE DecimalLiteral(t)

NumberOfTrimmed(t) == NumberOfLiteral(t, PrefixBase(t))

(* Number(text): white space and line terminators are trimmed; the empty   *)
(* text is 0; a literal of base 16, 8 or 2 has no sign; what is no numeric *)
(* literal is NaN.                                                          *)
NumberOfText(text) == NumberOfTrimmed(Trim(text))

(* getDistance is the haversine distance in kilometres (R = 6371).  For     *)
(* finite arguments it is tabulated for the device position and the         *)
(* coordinates the documents and the add form of the model hold, each value *)
(* computed by the formula and cut to three decimals.  The subtractions    *)
(* and products of the formula take the number of each argument: null is   *)
(* 0, a string the number it spells, undefined and a map NaN.  An argument *)
(* that is NaN or infinite makes the result NaN.                            *)
DevicePosition == LatLon(Dec(FALSE, 26, <<9>>), Dec(FALSE, 75, <<8>>))

DistanceTable ==
  { [lat |-> Dec(FALSE, 26, <<9, 3>>), lon |-> Dec(FALSE, 75, <<8>>),
     km |-> Dec(FALSE, 3, <<3, 3, 5>>)],
    [lat |-> Dec(FALSE, 27, <<0, 1>>), lon |-> Dec(FALSE, 75, <<8>>),
     km |-> Dec(FALSE, 12, <<2, 3, 1>>)],
    [lat |-> Dec(FALSE, 27, <<3, 5>>), lon |-> Dec(FALSE, 75, <<8>>),
     km |-> Dec(FALSE, 50, <<0, 3, 7>>)],
    [lat |-> Dec(FALSE, 0, <<>>), lon |-> Dec(FALSE, 75, <<8>>),
     km |-> Dec(FALSE, 2991, <<1, 4, 3>>)],
    [lat |-> Dec(FALSE, 26, <<9, 3>>), lon |-> Dec(FALSE, 0, <<>>),
     km |-> Dec(FALSE, 7386, <<1, 1, 5>>)],
    [lat |-> Dec(FALSE, 27, <<0, 1>>), lon |-> Dec(FALSE, 0, <<>>),
     km |-> Dec(FALSE, 7383, <<1, 6, 4>>)],
    [lat |-> Dec(FALSE, 27, <<3, 5>>), lon |-> Dec(FALSE, 0, <<>>),
     km |-> Dec(FALSE, 7370, <<6, 7, 7>>)],
    [lat |-> Dec(FALSE, 0, <<>>), lon |-> Dec(FALSE, 0, <<>>),
     km |-> Dec(FALSE, 8602, <<4, 3, 1>>)] }

\* The number an argument of getDistance counts as in its arithmetic
OperandOf(v) ==
  CASE v.t = "number" -> v.n
    [] v.t = "null" -> Dec(FALSE, 0, <<>>)
    [] v.t = "string" -> NumberOfText(v.s)
    [] v.t \in {"undefined", "object"} -> NaN

\* An argument of getDistance whose arithmetic gives NaN
NotFinite(v) == OperandOf(v).k \in {"nan", "inf", "ninf"}

getDistance(lat1, lon1, lat2, lon2) ==
  IF NotFinite(lat1) \/ NotFinite(lon1) \/ NotFinite(lat2) \/ NotFinite(lon2)
    THEN Num(NaN)
    ELSE Num((CHOOSE e \in DistanceTable :
                /\ <<OperandOf(lat1), OperandOf(lon1)>>
                     = <<Get(DevicePosition, "latitude").n,
                         Get(DevicePosition, "longitude").n>>
                /\ e.lat = OperandOf(lat2) /\ e.lon = OperandOf(lon2)).km)

\* a.distance ?? Infinity
DistanceOrInfinity(rec) == Coalesce(Field(rec, "distance"), Num(Infinity)).n

\* The sign of x - y for distances; a NaN operand and Infinity - Infinity
\* give NaN.
DistanceDifference(x, y) ==
  IF x.k = "nan" \/ y.k = "nan" THEN "nan"
  ELSE IF x.k = "inf" /\ y.k = "inf" THEN "nan"
  ELSE IF x.k = "inf" THEN "pos"
  ELSE IF y.k = "inf" THEN "neg"
  ELSE IF DecCompare(x, y) < 0 THEN "neg"
  ELSE IF DecCompare(x, y) > 0 THEN "pos"
  ELSE "zero"

\* The comparator (a, b) => (a.distance ?? absent) - (b.distance ?? absent)
\* with absent the number an absent distance counts as
CompareByDistance(a, b, absent) ==
  DistanceDifference(Coalesce(Field(a, "distance"), absent).n,
                     Coalesce(Field(b, "distance"), absent).n)

(* Array.prototype.sort with a comparator.  The sort reads a comparator     *)
(* result of NaN as 0.  An array of fewer than 64 elements is one run: the  *)
(* run the array starts with is counted, reversed when it is strictly       *)
(* descending, and the elements after it are placed into it one by one by   *)
(* binary insertion.                                                        *)

\* The comparator result for (a, b) is below 0
SortsBefore(a, b, absent) == CompareByDistance(a, b, absent) = "neg"

\* The run is strictly descending when the second element sorts before the
\* first
RunDescends(arr, absent) == SortsBefore(arr[2], arr[1], absent)

\* The number of elements of the run an array of two or more starts with:
\* it goes on while each element sorts before its predecessor (descending)
\* or does not (ascending)
RunLength(arr, absent) ==
  LET ends == {i \in 3..Len(arr) :
                 SortsBefore(arr[i], arr[i - 1], absent)
                   # RunDescends(arr, absent)}
  IN IF ends = {} THEN Len(arr)
     ELSE (CHOOSE i \in ends : \A j \in ends : i <= j) - 1

Reverse(seq) == [i \in 1..Len(seq) |-> seq[Len(seq) + 1 - i]]

\* The array with its first run made ascending
WithRunMade(arr, absent) ==
  IF RunDescends(arr, absent)
    THEN Reverse(SubSeq(arr, 1, RunLength(arr, absent)))
           \o SubSeq(arr, RunLength(arr, absent) + 1, Len(arr))
    ELSE arr

\* The binary search for the place of pivot among the elements left..right-1
\* (counted from 0): right = mid when pivot sorts before the middle element,
\* left = mid + 1 otherwise
RECURSIVE InsertionPoint(_, _, _, _, _)
InsertionPoint(arr, pivot, left, right, absent) ==
  IF left >= right THEN left
  ELSE LET mid == left + ((right - left) \div 2)
       IN IF SortsBefore(pivot, arr[mid + 1], absent)
            THEN InsertionPoint(arr, pivot, left, mid, absent)
            ELSE InsertionPoint(arr, pivot, mid + 1, right, absent)

\* The elements from start on (counted from 0) are placed, one after the
\* other, into the sorted elements before them
RECURSIVE BinaryInsertionSort(_, _, _)
BinaryInsertionSort(arr, start, absent) ==
  IF start >= Len(arr) THEN arr
  ELSE LET pivot == arr[start + 1]
           left == InsertionPoint(arr, pivot, 0, start, absent)
       IN BinaryInsertionSort(
            SubSeq(arr, 1, left) \o <<pivot>> \o SubSeq(arr, left + 1, start)
              \o SubSeq(arr, start + 2, Len(arr)),
            start + 1, absent)

\* arr.sort((a, b) => (a.distance ?? absent) - (b.distance ?? absent))
SortByDistanceOr(arr, absent) ==
  IF Len(arr) < 2 THEN arr
  ELSE BinaryInsertionSort(WithRunMade(arr, absent), RunLength(arr, absent),
                           absent)

\* The sort of the MapScreen: an absent distance counts as Infinity
SortByDistance(arr) == SortByDistanceOr(arr, Num(Infinity))

---------------------------------------------------------------------------
(* MapScreen *)

\* Mutant: a candidate that fails to parse falls through to the next key.
CoordinateCandidate_FallsThrough(raw) ==
  LET keys == <<"coordinates", "locationGeo", "coords", "location",
                "coordinatesText", "locationText">>
      ok == {i \in 1..6 : parseCoordinatesFlexible(Field(raw, keys[i])) # Null}
  IN IF ok = {} THEN Null
     ELSE Field(raw, keys[CHOOSE i \in ok : \A j \in ok : i <= j])

\* The candidate of the initial fetch: coordinates ?? locationGeo ?? coords
\* ?? location ?? coordinatesText ?? locationText ?? null
CoordinateCandidate(raw) ==
  Coalesce(Field(raw, "coordinates"),
    Coalesce(Field(raw, "locationGeo"),
      Coalesce(Field(raw, "coords"),
        Coalesce(Field(raw, "location"),
          Coalesce(Field(raw, "coordinatesText"),
            Coalesce(Field(raw, "locationText"), Null))))))

\* The candidate of the refresh after an add: the same without locationText
RefreshCandidate(raw) ==
  Coalesce(Field(raw, "coordinates"),
    Coalesce(Field(raw, "locationGeo"),
      Coalesce(Field(raw, "coords"),
        Coalesce(Field(raw, "location"),
          Coalesce(Field(raw, "coordinatesText"), Null)))))

\* { id: d.id, ...raw, parsedCoordinates: parsed ?? undefined, distance }
SaintOnMap(d, parsed, loc) ==
  [parsedCoordinates |-> Coalesce(parsed, Undef),
   distance |->
     IF parsed # Null /\ loc # Null
       THEN getDistance(Get(Get(loc, "coords"), "latitude"),
                        Get(Get(loc, "coords"), "longitude"),
                        Get(parsed, "latitude"), Get(parsed, "longitude"))
       ELSE Undef]
    @@ d.data @@ [id |-> d.id]

\* The records of the initial fetch, in snapshot order
MappedSaints(docs, loc) ==
  [i \in 1..Len(docs) |->
     SaintOnMap(docs[i],
                parseCoordinatesFlexible(CoordinateCandidate(docs[i].data)), loc)]

\* The records of the refresh after an add, in snapshot order
RefreshedSaints(docs, loc) ==
  [i \in 1..Len(docs) |->
     SaintOnMap(docs[i],
                parseCoordinatesFlexible(RefreshCandidate(docs[i].data)), loc)]

\* The older MapScreen keeps the documents whose coordinates member is
\* truthy and has a numeric latitude
HasCoordinatesObject(rec) ==
  /\ Truthy(Field(rec, "coordinates"))
  /\ Get(Field(rec, "coordinates"), "latitude").t = "number"

\* saintsData of the older MapScreen: { id: doc.id, ...doc.data() }, the
\* filter, the distance of every record kept, and the sort in which an
\* absent distance counts as 0
OlderSaintsData(docs, loc) ==
  LET kept == SelectSeq([i \in 1..Len(docs) |-> docs[i].data @@ [id |-> docs[i].id]],
                        HasCoordinatesObject)
  IN SortByDistanceOr(
       [i \in 1..Len(kept) |->
          [distance |->
             getDistance(Get(Get(loc, "coords"), "latitude"),
                         Get(Get(loc, "coords"), "longitude"),
                         Get(kept[i].coordinates, "latitude"),
                         Get(kept[i].coordinates, "longitude"))] @@ kept[i]],
       Num(Dec(FALSE, 0, <<>>)))

\* (s.distance ?? Infinity) <= distanceFilter
WithinDistance(rec, max) ==
  DistanceDifference(DistanceOrInfinity(rec), max.n) \in {"neg", "zero"}

\* (s.name ?? "").toLowerCase().includes(q)
NameMatches(rec, q) == Includes(ToLowerCase(TextOrEmpty(Field(rec, "name"))), q)

\* The filter effect of the MapScreen: the distance filter, then the text
\* filter, on a copy of allSaints.
FilterSaints(all, max, query) ==
  LET byDistance ==
        IF max.n.k # "inf"
          THEN SelectSeq(all, LAMBDA r : WithinDistance(r, max))
          ELSE all
  IN IF Trim(query) # <<>>
       THEN SelectSeq(byDistance, LAMBDA r : NameMatches(r, ToLowerCase(query)))
       ELSE byDistance

\* a < b for a number a that is not NaN and a decimal b
LessThan(a, b) ==
  a.k = "ninf" \/ (a.k = "dec" /\ DecCompare(a, b) < 0)

\* a > b for a number a that is not NaN and a decimal b
GreaterThan(a, b) ==
  a.k = "inf" \/ (a.k = "dec" /\ DecCompare(a, b) > 0)

\* validateLatLon of the add form
LatLonInRange(lat, lon) ==
  /\ lat.k # "nan" /\ lon.k # "nan"
  /\ ~LessThan(lat, Dec(TRUE, 90, <<>>))
  /\ ~GreaterThan(lat, Dec(FALSE, 90, <<>>))
  /\ ~LessThan(lon, Dec(TRUE, 180, <<>>))
  /\ ~GreaterThan(lon, Dec(FALSE, 180, <<>>))
validateLatLon(latS, lonS) ==
  LatLonInRange(NumberOfText(latS), NumberOfText(lonS))

\* parsedCoordinates of submitNewSaint: the lat/lon inputs when both are
\* given, else the location text parsed, else null
FormCoordinates(newLat, newLon, newLocationText) ==
  IF Trim(newLat) # <<>> /\ Trim(newLon) # <<>>
    THEN LatLon(NumberOfText(newLat), NumberOfText(newLon))
  ELSE IF Trim(newLocationText) # <<>>
    THEN parseCoordinatesFlexible(Str(Trim(newLocationText)))
  ELSE Null

\* The document submitNewSaint writes for a form that passed its checks.
\* The form of the model leaves about, designation, the date of diksha, the
\* guru and the group leader empty and keeps the default amber and gender;
\* createdAt and createdBy, which nothing on the screen reads, are left out.
NewSaintPayload(form) ==
  LET parsed == FormCoordinates(form.newLat, form.newLon, form.newLocationText)
      base == [name |-> Str(Trim(form.newName)),
               location |-> Str(Trim(form.newLocationText)),
               about |-> Str(<<>>),
               amber |-> Str(<<"Digamber">>),
               designation |-> Str(<<>>),
               gender |-> Str(<<"Male">>)]
  IN IF parsed # Null
       THEN [coordinates |-> parsed, locationGeo |-> parsed] @@ base
       ELSE base

\* The checks of submitNewSaint that end it before anything is written
FormRejected(form) ==
  \/ Trim(form.newName) = <<>>
  \/ /\ Trim(form.newLat) # <<>>
     /\ Trim(form.newLon) # <<>>
     /\ ~validateLatLon(form.newLat, form.newLon)

InsertAt(seq, pos, x) ==
  SubSeq(seq, 1, pos - 1) \o <<x>> \o SubSeq(seq, pos, Len(seq))

---------------------------------------------------------------------------
(* Inputs and specifications *)

MaxRefLen == 4
RefAlphabet == {"a", "b", "/"}
RefStrings == SeqsUpTo(RefAlphabet, MaxRefLen)

SaintPathExample == <<"s", "a", "i", "n", "t", "/", "a", "b", "c", "1", "2", "3">>
UserPathExample == <<"u", "s", "e", "r", "s", "/", "x", "y", "z">>
IdExample == <<"x", "y", "z">>

\* The references of the examples: "saint/abc123", "/saint/abc123",
\* {path: "users/xyz"}, {id: "xyz"}, and a reference with both members
RefExamples ==
  { Str(SaintPathExample), Str(<<"/">> \o SaintPathExample),
    Obj([path |-> Str(UserPathExample)]), Obj([id |-> Str(IdExample)]),
    Obj([id |-> Str(IdExample), path |-> Str(SaintPathExample)]) }

\* Reference inputs: null, undefined, strings, {id}, {path}, {id, path}, {}.
RefInputs ==
  {Undef, Null, Obj([other |-> Null])}
    \cup {Str(s) : s \in RefStrings}
    \cup {Obj([path |-> Str(s)]) : s \in RefStrings}
    \cup {Obj([id |-> Str(s)]) : s \in SeqsUpTo(RefAlphabet, 2)}
    \cup {Obj([id |-> Str(i), path |-> Str(p)]) :
            i \in SeqsUpTo({"a"}, 1), p \in SeqsUpTo({"b", "/"}, 2)}
    \cup RefExamples
    \cup {Num(Dec(FALSE, 0, <<>>)), Num(Dec(FALSE, 5, <<>>))}

(* Instants and their encodings.  Each epoch is given with its civil UTC    *)
(* date-time, so that an ISO string and a number of the same instant are    *)
(* paired by the table and not by the parser.                               *)
TsEpochs ==
  { [iso |-> <<"2", "0", "0", "1", "-", "0", "9", "-", "0", "9", "T", "0", "1", ":", "4", "6", ":", "4", "0">>, sec |-> 1000000000],
    [iso |-> <<"2", "0", "2", "3", "-", "1", "1", "-", "1", "4", "T", "2", "2", ":", "1", "3", ":", "2", "0">>, sec |-> 1700000000],
    [iso |-> <<"2", "0", "2", "4", "-", "0", "2", "-", "2", "9", "T", "2", "3", ":", "5", "9", ":", "5", "9">>, sec |-> 1709251199],
    [iso |-> <<"2", "0", "3", "8", "-", "0", "1", "-", "1", "9", "T", "0", "3", ":", "0", "3", ":", "1", "9">>, sec |-> 2147482999] }
TsMillis == {0, 1, 500, 999}
TsSubMillis == {0, 499999, 500000, 999999}

\* An instant: epoch seconds, milliseconds in the second, nanoseconds in the
\* millisecond.
Instants ==
  {[iso |-> e.iso, sec |-> e.sec, ms |-> m, ns |-> n] :
     e \in TsEpochs, m \in TsMillis, n \in TsSubMillis}

\* The number of an integer
IntNum(i) == Fin(i \div 1000, (i % 1000) * 10)

ThreeDigits(i) ==
  <<DigitChars[(i \div 100) + 1], DigitChars[((i \div 10) % 10) + 1],
    DigitChars[(i % 10) + 1]>>

\* Date.prototype.toISOString of the instant
IsoString(i) == i.iso \o <<".">> \o ThreeDigits(i.ms) \o <<"Z">>

SecNanos(i) ==
  [seconds |-> Num(IntNum(i.sec)),
   nanoseconds |-> Num(IntNum(i.ms * 1000000 + i.ns))]

\* A store timestamp: it has toDate() and also seconds and nanoseconds.
EncTimestamp(i) ==
  Obj([toDate |-> Fn(DateOf(Millis(i.sec, i.ms)))] @@ SecNanos(i))
EncSecNanos(i) == Obj(SecNanos(i))
EncSecOnly(i) == Obj([seconds |-> Num(IntNum(i.sec))])
EncSecNumber(i) == Num(IntNum(i.sec))
EncMsNumber(i) == Num(Millis(i.sec, i.ms))
EncDate(i) == DateOf(Millis(i.sec, i.ms))
EncIso(i) == Str(IsoString(i))

\* The encodings that represent instant i.
Encodings(i) ==
  {EncTimestamp(i), EncSecNanos(i)}
    \cup (IF i.ns = 0 THEN {EncMsNumber(i), EncDate(i), EncIso(i)} ELSE {})
    \cup (IF i.ns = 0 /\ i.ms = 0 THEN {EncSecNumber(i), EncSecOnly(i)} ELSE {})

\* Strings the date parser reads leniently, and strings it rejects
TsDateStrings ==
  {Str(<<"2", "0", "2", "4", "-", "0", "1", "-", "0", "1", "T", "2",
          "4", ":", "0", "0", ":", "0", "0", ".", "0", "0", "0",
          "Z">>),
    Str(<<"2", "0", "2", "4", "-", "0", "2", "-", "3", "0", "T", "0",
          "0", ":", "0", "0", ":", "0", "0", ".", "0", "0", "0",
          "Z">>),
    Str(<<"2", "0", "2", "4", "-", "0", "1", "-", "0", "1">>),
    Str(<<"2", "0", "2", "4">>),
    Str(<<"J", "a", "n", " ", "1", " ", "2", "0", "2", "4">>),
    Str(<<"2", "0", "2", "4", "-", "0", "1", "-", "0", "1", "T", "0",
          "0", ":", "0", "0", ":", "0", "0", ".", "0", "0", "0", "+",
          "0", "5", ":", "3", "0">>),
    Str(<<"2", "0", "2", "4", "-", "0", "1", "-", "0", "1", " ", "0",
          "0", ":", "0", "0", ":", "0", "0", ".", "0", "0", "0",
          "z">>),
    Str(<<"+", "0", "0", "2", "0", "2", "4", "-", "0", "1", "-", "0",
          "1", "T", "0", "0", ":", "0", "0", ":", "0", "0", "Z">>),
    Str(<<"9", "9", "9", "9", "-", "1", "2", "-", "3", "1", "T", "2",
          "3", ":", "5", "9", ":", "5", "9", ".", "9", "9", "9",
          "Z">>),
    Str(<<"2", "0", "2", "4", "-", "1", "3", "-", "0", "1">>),
    Str(<<"2", "0", "2", "4", "-", "0", "1", "-", "0", "1", "T", "2",
          "5", ":", "0", "0", ":", "0", "0", ".", "0", "0", "0",
          "Z">>),
    Str(<<"1", "/", "2", "/", "2", "0", "2", "4", " ", "3", ":", "1",
          "5", " ", "p", "m">>),
    Str(<<"D", "e", "c", " ", "3", "1", " ", "1", "9", "9", "9", " ", "1",
          "0", ":", "3", "0", " ", "+", "1", ":", "6", "0">>),
    Str(<<"2", "0", "2", "4", "-", "0", "1", "-", "1", "5", "\\u2028", "1",
          "0", ":", "3", "0">>),
    Str(<<"2", "0", "2", "4", "-", "0", "1", "-", "1", "5", "\\u0000",
          "x">>),
    Str(<<"\\u0000", "2", "0", "2", "4">>) }

NotADate == <<"n", "o", "t", " ", "a", " ", "d", "a", "t", "e">>

\* Inputs that encode no instant of the table.
TsOtherInputs ==
  { Undef, Null, Obj([other |-> Null]),
    Obj([toDate |-> Fn(Throws), seconds |-> Num(IntNum(1700000000))]),
    Obj([toDate |-> Fn(DateOf(NaN)), seconds |-> Num(IntNum(1700000000)),
         nanoseconds |-> Num(IntNum(5000000))]),
    Obj([toDate |-> Fn(Str(NotADate)), seconds |-> Num(IntNum(1000000000))]),
    Obj([toDate |-> Fn(Throws)]),
    Obj([toDate |-> Fn(Null)]),
    Obj([toDate |-> Str(NotADate), seconds |-> Num(IntNum(1700000000))]),
    Obj([seconds |-> Str(NotADate)]),
    Obj([seconds |-> Num(NaN)]),
    Obj([seconds |-> Num(IntNum(1700000000)), nanoseconds |-> Num(NaN)]),
    Obj([seconds |-> Num(IntNum(1700000000)), nanoseconds |-> Str(NotADate)]),
    Obj([seconds |-> Num(IntNum(-1)), nanoseconds |-> Num(IntNum(999500000))]),
    Num(NaN), Num(IntNum(0)), Num(IntNum(7)), Num(IntNum(-7)),
    Num(IntNum(123456789)), Num(IntNum(-123456789)),
    Num(IntNum(1234567890)), Num(IntNum(-1234567890)),
    Num(Fin(12345, 6789)), Num(Fin(-12346, 3211)),
    Num(Fin(1700000, 5)), Num(Fin(123456, 7895)),
    Num(Fin(16777, 2164)), Num(Fin(16777, 2161)), Num(Fin(-1049, 4236)),
    Obj([seconds |-> Num(Fin(16777, 2164)),
         nanoseconds |-> Num(IntNum(5000000))]),
    Num(Millis(170000000, 0)), Num(Millis(-1700000000, 123)),
    DateOf(NaN), DateOf(Millis(0, 0)), DateOf(Millis(-1, 999)),
    Str(NotADate), Str(<<>>), Str(<<"Z">>) }
    \cup TsDateStrings

Idle == [t |-> "idle"]

\* The parts of the application a specification leaves out stay idle.
RefIdle == refIn = Idle /\ refOut = Idle /\ refDoc = Idle
TsIdle == tsIn = Idle /\ tsInstant = Idle /\ tsSafe = Idle /\ tsOrNull = Idle
CoIdle == coIn = Idle /\ coOut = Idle
MapIdle ==
  /\ saintStore = <<>> /\ mapPc = "idle" /\ userLocation = Null
  /\ allSaints = <<>> /\ filteredSaints = <<>>
  /\ searchQuery = <<>> /\ distanceFilter = Idle
  /\ loading = FALSE /\ errorMsg = Null
  /\ filterDue = FALSE /\ addPc = "idle" /\ addClosure = Null
EvIdle ==
  /\ eventStore = <<>> /\ evPc = "idle"
  /\ allEvents = <<>> /\ filteredEvents = <<>>
  /\ selectedFilter = <<>> /\ evSearchQuery = <<>> /\ evLoading = FALSE
  /\ evFilterDue = FALSE

\* The add-event form in its initial state, which is also the one
\* resetAddForm leaves, with no picker shown and no add under way
FormClear ==
  /\ evTitle = <<>> /\ evSaintId = <<>> /\ evSaintName = <<>>
  /\ evAddress = <<>> /\ evLatitude = <<>> /\ evLongitude = <<>>
  /\ evDate = Null /\ saintQuery = <<>>
  /\ showSaintSuggestions = FALSE
  /\ showDatePicker = FALSE /\ showTimePicker = FALSE
  /\ evAddPc = "idle" /\ evAddClosure = Null

\* The events screen is not mounted: no host saints asked for
FormIdle == saintsList = <<>> /\ saintsPc = "idle" /\ FormClear

\* The profile screen is not mounted
NotifIdle ==
  /\ notifPc = "idle" /\ signedIn = FALSE
  /\ switches = <<>> /\ storedSettings = <<>>
  /\ savingFlags = <<>> /\ pendingSaves = <<>>
  /\ storedIsVolunteer = FALSE
  /\ showAuthModal = FALSE /\ authLoads = [getDoc |-> 0, setDoc |-> 0]
  /\ modalPc = "idle"
  /\ profileIsVolunteer = "null" /\ showVolunteerModal = FALSE
  /\ volunteerPc = "idle"

\* The saint profile screen is not mounted
DetailIdle ==
  /\ detailPc = "idle" /\ detailId = Idle
  /\ detailLoading = FALSE /\ detailSaint = Null

\* The volunteer effects are not running
VolIdle ==
  /\ volPc = "idle" /\ authUser = "none" /\ userDocs = <<>>
  /\ isVolunteer = FALSE /\ checkingVolunteer = FALSE
  /\ pendingChecks = <<>>

SideIdle == NotifIdle /\ DetailIdle /\ VolIdle

UiIdle == FormIdle /\ SideIdle

(* The reference normalizer applied to one input *)

RefInit ==
  /\ refIn \in RefInputs /\ refOut = Pending /\ refDoc = Pending
  /\ TsIdle /\ CoIdle /\ MapIdle /\ EvIdle /\ UiIdle

\* A screen renders a reference through extractId.
ApplyExtractId ==
  /\ refOut = Pending
  /\ refOut' = extractId(refIn)
  /\ UNCHANGED <<refIn, refDoc, tsVars, coVars, mapVars, evVars, uiVars>>

\* The saint screen renders a reference through formatDocRef.
ApplyFormatDocRef ==
  /\ refDoc = Pending
  /\ refDoc' = formatDocRef(refIn)
  /\ UNCHANGED <<refIn, refOut, tsVars, coVars, mapVars, evVars, uiVars>>

RefNext == ApplyExtractId \/ ApplyFormatDocRef

SpecRef == RefInit /\ [][RefNext]_vars

(* The instant normalizer applied to one input *)

TsInit ==
  /\ \/ \E i \in Instants : tsInstant = i /\ tsIn \in Encodings(i)
     \/ tsInstant = Null /\ tsIn \in TsOtherInputs
  /\ tsSafe = Pending /\ tsOrNull = Pending
  /\ RefIdle /\ CoIdle /\ MapIdle /\ EvIdle /\ UiIdle

\* The event detail screen normalizes a date through toDateSafe.
ApplyToDateSafe ==
  /\ tsSafe = Pending
  /\ tsSafe' = toDateSafe(tsIn)
  /\ UNCHANGED <<tsIn, tsInstant, tsOrNull, refVars, coVars, mapVars, evVars, uiVars>>

\* The events screen normalizes a date through toDateOrNull.
ApplyToDateOrNull ==
  /\ tsOrNull = Pending
  /\ tsOrNull' = toDateOrNull(tsIn)
  /\ UNCHANGED <<tsIn, tsInstant, tsSafe, refVars, coVars, mapVars, evVars, uiVars>>

TsNext == ApplyToDateSafe \/ ApplyToDateOrNull

SpecInstant == TsInit /\ [][TsNext]_vars

(* The coordinate normalizer applied to one input *)

MaxCoordLen == 3
CoordAlphabet == {"9", "1", ".", ",", "-", " ", "\t"}

\* Whole numbers as coordinate numbers
Whole(i) == Dec(i < 0, IF i < 0 THEN -i ELSE i, <<>>)

CoordNumbers ==
  {Whole(i) : i \in {-181, -180, -91, -90, 0, 90, 91, 180, 181}}
    \cup {Dec(FALSE, 26, <<9>>), Dec(FALSE, 75, <<8>>), Dec(FALSE, 90, <<0, 1>>),
          NaN}

CoordStrings ==
  { <<"2", "6", ".", "9", "°", " ", "N", ",", " ", "7", "5", ".", "8", "°", " ", "E">>, <<"[", "2", "6", ".", "5", "5", "°", " ", "N", ",", " ", "7", "6", ".", "4", "9", "°", " ", "E", "]">>,
    <<"2", "4", ".", "8", ",", "8", "0", ".", "0">>, <<"9", "1", ",", " ", "0">>,
    <<"2", "6", ".", "9", " ", "1", "8", "1">>, <<"J", "a", "i", "p", "u", "r">>, <<"l", "a", "t", ":", "-", "9", "0", ";", "l", "o", "n", ":", "-", "1", "8", "0", ".", "5">>,
    <<"(", "1", "2", ".", "5", ")", "(", "2", "0", "0", ")">>, <<"9", "0", ".", "0", "1", " ", "0">>,
    <<"2", "6", ".", "9", "N", "7", "5", ".", "8", "E">> }

\* Coordinate inputs: null, undefined, objects under the alias names,
\* example strings and every string over a small alphabet.
CoordInputs ==
  {Undef, Null, Obj([other |-> Null])}
    \cup {LatLon(a, b) : a \in CoordNumbers, b \in CoordNumbers}
    \cup {Obj([lat |-> Num(Whole(a)), lng |-> Num(Whole(b))]) :
            a \in {0, 90, 91}, b \in {0, 180, 181}}
    \cup {Obj([_latitude |-> Num(Whole(a)), _longitude |-> Num(Whole(b))]) :
            a \in {0, -91}, b \in {0, -181}}
    \cup {Obj([_lat |-> Num(Whole(a)), _long |-> Num(Whole(b))]) :
            a \in {0, 91}, b \in {0, 181}}
    \cup {Obj([latitude |-> Str(<<"2", "6">>), longitude |-> Num(Whole(75))]),
          Obj([latitude |-> Num(Whole(26))]),
          Obj([lat |-> Num(Whole(26)), longitude |-> Num(Whole(75))]),
          Obj([latitude |-> Null, lat |-> Num(Whole(26)),
               lng |-> Num(Whole(75))]),
          Obj([latitude |-> Str(<<"2", "6">>), lat |-> Num(Whole(26)),
               lng |-> Num(Whole(75))]),
          Obj([latitude |-> Num(Whole(1)), lat |-> Num(Whole(26)),
               lng |-> Num(Whole(75))])}
    \cup {Str(s) : s \in CoordStrings}
    \cup {Str(s) : s \in SeqsUpTo(CoordAlphabet, MaxCoordLen)}
    \cup {Num(Whole(5)), DateOf(Millis(0, 0))}

CoInit ==
  /\ coIn \in CoordInputs /\ coOut = Pending
  /\ RefIdle /\ TsIdle /\ MapIdle /\ EvIdle /\ UiIdle

\* A screen normalizes a coordinate through parseCoordinatesFlexible.
ApplyParseCoordinates ==
  /\ coOut = Pending
  /\ coOut' = parseCoordinatesFlexible(coIn)
  /\ UNCHANGED <<coIn, refVars, tsVars, mapVars, evVars, uiVars>>

CoNext == ApplyParseCoordinates

SpecCoord == CoInit /\ [][CoNext]_vars

(* The three scalar normalizers, each applied to one input *)

ScalarInit == RefInit \/ TsInit \/ CoInit

ScalarNext == RefNext \/ TsNext \/ CoNext

SpecScalars == ScalarInit /\ [][ScalarNext]_vars

---------------------------------------------------------------------------
(* MapScreen: documents, inputs and specification *)

MaxDocs == 3

Dec2693 == Dec(FALSE, 26, <<9, 3>>)
Dec758 == Dec(FALSE, 75, <<8>>)

SaintDoc(id, data) == [id |-> Str(id), data |-> data]

\* Documents of the saint collection, in the shapes its history left
SaintDocs ==
  { SaintDoc(<<"s", "1">>,
      [name |-> Str(<<"S", "a", "n", "t", " ", "R", "a", "m", "e", "s", "h", " ", "D", "a", "s">>), location |-> Str(<<"J", "a", "i", "p", "u", "r">>),
       designation |-> Str(<<"M", "u", "n", "i">>), coordinatesText |-> Str(<<"2", "6", ".", "9", "3", ",", " ", "7", "5", ".", "8">>)]),
    SaintDoc(<<"s", "2">>,
      [name |-> Str(<<"A", "c", "h", "a", "r", "y", "a", " ", "V", "i", "d", "y", "a">>), locationText |-> Str(<<"(", "2", "7", ".", "3", "5", " ", "7", "5", ".", "8", ")">>)]),
    SaintDoc(<<"s", "3">>,
      [coordinates |-> Obj([latitude |-> Num(NaN), longitude |-> Num(Dec758)])]),
    SaintDoc(<<"s", "4">>,
      [name |-> Str(<<"S", "a", "d", "h", "v", "i", " ", "J", "a", "y", "a">>), designation |-> Str(<<"J", "a", "i", "p", "u", "r">>),
       coordinates |-> Null, coords |-> Str(<<"2", "6", ".", "9", "3", ",", " ", "7", "5", ".", "8">>)]) }

\* The stores the screen can meet: documents with distinct ids, in any order
SaintStores ==
  {st \in SeqsUpTo(SaintDocs, MaxDocs) :
     \A i, j \in 1..Len(st) : i # j => st[i] # st[j]}

SearchQueries == {<<>>, <<"r", "a", "m">>, <<"j", "a", "i">>}

\* Texts typed in the search box of the events screen
EventSearchQueries == SearchQueries \cup {<<"j", "a", "i", " ">>, <<" ">>}

\* distanceOptions
DistanceOptions ==
  {Num(Dec(FALSE, 10, <<>>)), Num(Dec(FALSE, 50, <<>>)),
   Num(Dec(FALSE, 100, <<>>)), Num(Infinity)}

\* The add forms a volunteer submits, each with the id Firestore gives the
\* document written for it
AddForms ==
  { [id |-> <<"n", "1">>, newName |-> <<" ", "R", "a", "m", "u", " ">>,
     newLat |-> <<"2", "7", ".", "0", "1">>, newLon |-> <<"7", "5", ".", "8">>, newLocationText |-> <<>>],
    [id |-> <<"n", "2">>, newName |-> <<"R", "a", "m", "u">>,
     newLat |-> <<>>, newLon |-> <<"7", "5", ".", "8">>, newLocationText |-> <<"J", "a", "i", "p", "u", "r">>],
    [id |-> <<"n", "3">>, newName |-> <<" ">>,
     newLat |-> <<"2", "7", ".", "8">>, newLon |-> <<"7", "5", ".", "8">>, newLocationText |-> <<>>],
    [id |-> <<"n", "4">>, newName |-> <<"R", "a", "m", "u">>,
     newLat |-> <<"9", "5">>, newLon |-> <<"7", "5", ".", "8">>, newLocationText |-> <<>>] }

PermissionDenied == Str(<<"Permission to access location was denied">>)
FailedToLoad == Str(<<"Failed to load data.">>)

\* The position the device reports
DeviceLocation == Obj([coords |-> DevicePosition])

MapInit ==
  /\ saintStore \in SaintStores
  /\ mapPc = "mount"
  /\ userLocation = Null
  /\ allSaints = <<>>
  /\ filteredSaints = <<>>
  /\ searchQuery = <<>>
  /\ distanceFilter = Num(Infinity)
  /\ loading = TRUE
  /\ errorMsg = Null
  /\ filterDue = FALSE
  /\ addPc = "idle"
  /\ addClosure = Null
  /\ RefIdle /\ TsIdle /\ CoIdle /\ EvIdle /\ UiIdle

\* The effects of the first render have run and no effect is waiting:
\* React runs the effects of a commit before it handles an event or a
\* continuation that renders again.
MapSettled == mapPc \notin {"idle", "mount"} /\ ~filterDue

\* The effects of the first render: the fetch effect does setLoading(true)
\* and asks for the permission; the filter effect sets the filtered copy of
\* the empty list
MapMount ==
  /\ mapPc = "mount"
  /\ loading' = TRUE
  /\ filteredSaints' = FilterSaints(allSaints, distanceFilter, searchQuery)
  /\ mapPc' = "permission"
  /\ UNCHANGED <<saintStore, userLocation, allSaints, searchQuery,
                 distanceFilter, errorMsg, filterDue, addPc, addClosure>>
  /\ UNCHANGED <<refVars, tsVars, coVars, evVars, uiVars>>

\* The permission request resolves
MapPermission ==
  /\ mapPc = "permission"
  /\ ~filterDue
  /\ \E status \in {"granted", "denied"} :
       IF status # "granted"
         THEN /\ errorMsg' = PermissionDenied
              /\ loading' = FALSE
              /\ mapPc' = "done"
         ELSE /\ mapPc' = "position"
              /\ UNCHANGED <<errorMsg, loading>>
  /\ UNCHANGED <<saintStore, userLocation, allSaints, filteredSaints,
                 searchQuery, distanceFilter, filterDue, addPc, addClosure>>
  /\ UNCHANGED <<refVars, tsVars, coVars, evVars, uiVars>>

\* The position request resolves: setUserLocation(loc), then getDocs
MapPosition ==
  /\ mapPc = "position"
  /\ ~filterDue
  /\ userLocation' = DeviceLocation
  /\ mapPc' = "docs"
  /\ UNCHANGED <<saintStore, allSaints, filteredSaints, searchQuery,
                 distanceFilter, loading, errorMsg, filterDue, addPc,
                 addClosure>>
  /\ UNCHANGED <<refVars, tsVars, coVars, evVars, uiVars>>

\* getDocs resolves: the records are assembled and sorted with the position
\* just read, setAllSaints(sorted), setFilteredSaints(sorted) and
\* setLoading(false) are committed together; the new allSaints makes the
\* filter effect due
MapDocs ==
  /\ mapPc = "docs"
  /\ ~filterDue
  /\ LET sorted == SortByDistance(MappedSaints(saintStore, DeviceLocation))
     IN /\ allSaints' = sorted
        /\ filteredSaints' = sorted
  /\ filterDue' = TRUE
  /\ loading' = FALSE
  /\ mapPc' = "done"
  /\ UNCHANGED <<saintStore, userLocation, searchQuery, distanceFilter,
                 errorMsg, addPc, addClosure>>
  /\ UNCHANGED <<refVars, tsVars, coVars, evVars, uiVars>>

\* One of the awaited requests rejects: the catch and the finally
MapFetchFails ==
  /\ mapPc \in {"permission", "position", "docs"}
  /\ ~filterDue
  /\ errorMsg' = FailedToLoad
  /\ loading' = FALSE
  /\ mapPc' = "done"
  /\ UNCHANGED <<saintStore, userLocation, allSaints, filteredSaints,
                 searchQuery, distanceFilter, filterDue, addPc, addClosure>>
  /\ UNCHANGED <<refVars, tsVars, coVars, evVars, uiVars>>

\* Mutant: the filter works on allSaints itself, so the master list is cut
\* down with the filtered one.
FilterEffect_InPlace ==
  /\ mapPc # "idle"
  /\ filterDue
  /\ filteredSaints' = FilterSaints(allSaints, distanceFilter, searchQuery)
  /\ allSaints' = FilterSaints(allSaints, distanceFilter, searchQuery)
  /\ filterDue' = FALSE
  /\ UNCHANGED <<saintStore, mapPc, userLocation, searchQuery,
                 distanceFilter, loading, errorMsg, addPc, addClosure>>
  /\ UNCHANGED <<refVars, tsVars, coVars, evVars, uiVars>>

\* The filter effect, run after a commit that changed allSaints,
\* distanceFilter or searchQuery: setFilteredSaints(list)
FilterEffect ==
  /\ mapPc # "idle"
  /\ filterDue
  /\ filteredSaints' = FilterSaints(allSaints, distanceFilter, searchQuery)
  /\ filterDue' = FALSE
  /\ UNCHANGED <<saintStore, mapPc, userLocation, allSaints, searchQuery,
                 distanceFilter, loading, errorMsg, addPc, addClosure>>
  /\ UNCHANGED <<refVars, tsVars, coVars, evVars, uiVars>>

\* The search box changes: setSearchQuery(text); a text that differs from
\* the one held makes the filter effect due
SetSearchQuery ==
  /\ MapSettled
  /\ \E q \in SearchQueries :
       /\ searchQuery' = q
       /\ filterDue' = (q # searchQuery)
  /\ UNCHANGED <<saintStore, mapPc, userLocation, allSaints, filteredSaints,
                 distanceFilter, loading, errorMsg, addPc, addClosure>>
  /\ UNCHANGED <<refVars, tsVars, coVars, evVars, uiVars>>

\* A distance option is picked: setDistanceFilter(option.value)
SetDistanceFilter ==
  /\ MapSettled
  /\ \E max \in DistanceOptions :
       /\ distanceFilter' = max
       /\ filterDue' = (max # distanceFilter)
  /\ UNCHANGED <<saintStore, mapPc, userLocation, allSaints, filteredSaints,
                 searchQuery, loading, errorMsg, addPc, addClosure>>
  /\ UNCHANGED <<refVars, tsVars, coVars, evVars, uiVars>>

\* submitNewSaint is called (the button is disabled while an add is under
\* way): the checks, then setAddingSaint(true) and addDoc.  The rest of the
\* function runs with the form and the userLocation of this render.
SubmitNewSaint ==
  /\ MapSettled
  /\ addPc = "idle"
  /\ Len(saintStore) < MaxDocs
  /\ \E form \in AddForms :
       /\ \A i \in 1..Len(saintStore) : saintStore[i].id # Str(form.id)
       /\ IF FormRejected(form)
            THEN UNCHANGED <<addPc, addClosure>>
            ELSE /\ addPc' = "addDoc"
                 /\ addClosure' = [form |-> form, userLocation |-> userLocation]
  /\ UNCHANGED <<saintStore, mapPc, userLocation, allSaints, filteredSaints,
                 searchQuery, distanceFilter, loading, errorMsg, filterDue>>
  /\ UNCHANGED <<refVars, tsVars, coVars, evVars, uiVars>>

\* addDoc resolves: the document is in the collection, which is read in the
\* order of its document ids, so the new document lands at any position;
\* getDocs is called
SaintAddDoc ==
  /\ addPc = "addDoc"
  /\ ~filterDue
  /\ \E pos \in 1..(Len(saintStore) + 1) :
       saintStore' = InsertAt(saintStore, pos,
                       [id |-> Str(addClosure.form.id),
                        data |-> NewSaintPayload(addClosure.form)])
  /\ addPc' = "getDocs"
  /\ UNCHANGED <<mapPc, userLocation, allSaints, filteredSaints, searchQuery,
                 distanceFilter, loading, errorMsg, filterDue, addClosure>>
  /\ UNCHANGED <<refVars, tsVars, coVars, evVars, uiVars>>

\* getDocs of the refresh resolves: the records are assembled with the
\* userLocation of the render in which the function was called, sorted and
\* set as both lists; setAddingSaint(false)
SaintRefresh ==
  /\ addPc = "getDocs"
  /\ ~filterDue
  /\ LET sorted == SortByDistance(RefreshedSaints(saintStore, addClosure.userLocation))
     IN /\ allSaints' = sorted
        /\ filteredSaints' = sorted
  /\ filterDue' = TRUE
  /\ addPc' = "idle"
  /\ addClosure' = Null
  /\ UNCHANGED <<saintStore, mapPc, userLocation, searchQuery,
                 distanceFilter, loading, errorMsg>>
  /\ UNCHANGED <<refVars, tsVars, coVars, evVars, uiVars>>

\* addDoc or getDocs rejects: the catch and the finally
SaintAddFails ==
  /\ addPc \in {"addDoc", "getDocs"}
  /\ ~filterDue
  /\ addPc' = "idle"
  /\ addClosure' = Null
  /\ UNCHANGED <<saintStore, mapPc, userLocation, allSaints, filteredSaints,
                 searchQuery, distanceFilter, loading, errorMsg, filterDue>>
  /\ UNCHANGED <<refVars, tsVars, coVars, evVars, uiVars>>

Next ==
  \/ MapMount
  \/ MapPermission
  \/ MapPosition
  \/ MapDocs
  \/ MapFetchFails
  \/ FilterEffect
  \/ SetSearchQuery
  \/ SetDistanceFilter
  \/ SubmitNewSaint
  \/ SaintAddDoc
  \/ SaintRefresh
  \/ SaintAddFails

Spec == MapInit /\ [][Next]_vars

\* Documents written from exported records: they carry members named id,
\* distance and parsedCoordinates of their own
ImportedDocs ==
  { SaintDoc(<<"s", "5">>,
      [id |-> Str(<<"o", "l", "d">>), name |-> Str(<<"M", "u", "n", "i">>),
       coordinates |-> Obj([latitude |-> Num(Dec2693), longitude |-> Num(Dec758)]),
       distance |-> Num(Dec(FALSE, 999, <<>>)),
       parsedCoordinates |-> Str(<<"x">>)]),
    SaintDoc(<<"s", "6">>,
      [id |-> Str(<<"s", "1">>), name |-> Str(<<"R", "a", "m">>),
       distance |-> Num(Dec(FALSE, 1, <<>>))]) }

ImportedStores ==
  {st \in SeqsUpTo(ImportedDocs \cup {d \in SaintDocs : d.id = Str(<<"s", "1">>)}, MaxDocs) :
     \A i, j \in 1..Len(st) : i # j => st[i] # st[j]}

\* The MapScreen over a collection that holds imported documents
MapInitImported ==
  /\ saintStore \in ImportedStores
  /\ mapPc = "mount"
  /\ userLocation = Null
  /\ allSaints = <<>>
  /\ filteredSaints = <<>>
  /\ searchQuery = <<>>
  /\ distanceFilter = Num(Infinity)
  /\ loading = TRUE
  /\ errorMsg = Null
  /\ filterDue = FALSE
  /\ addPc = "idle"
  /\ addClosure = Null
  /\ RefIdle /\ TsIdle /\ CoIdle /\ EvIdle /\ UiIdle

SpecImported == MapInitImported /\ [][Next]_vars

---------------------------------------------------------------------------
(* EventsScreen *)

Arr(a) == [t |-> "array", a |-> a]

\* arr[i] for the zero-based index i
At(arr, i) == IF i + 1 \in DOMAIN arr.a THEN arr.a[i + 1] ELSE Undef

\* loc of fetchEvents: numeric latitude and longitude, else truthy _latitude
\* and _longitude, else the first two members of an array, else null
EventLocation(raw) ==
  LET geo == Field(raw, "locationGeo")
  IN IF ~Truthy(geo) THEN Null
     ELSE IF Get(geo, "latitude").t = "number" /\ Get(geo, "longitude").t = "number"
       THEN Obj([latitude |-> Get(geo, "latitude"),
                 longitude |-> Get(geo, "longitude")])
     ELSE IF Truthy(Get(geo, "_latitude")) /\ Truthy(Get(geo, "_longitude"))
       THEN Obj([latitude |-> Get(geo, "_latitude"),
                 longitude |-> Get(geo, "_longitude")])
     ELSE IF geo.t = "array"
       THEN Obj([latitude |-> At(geo, 0), longitude |-> At(geo, 1)])
     ELSE Null

\* raw?.dateTime?.toDate?.() : undefined without a dateTime or a toDate
\* member, the call's result otherwise; calling a member that is no
\* function throws
CallToDate(dateTime) ==
  IF IsNullish(dateTime) \/ IsNullish(Get(dateTime, "toDate")) THEN Undef
  ELSE IF Get(dateTime, "toDate").t = "function" THEN Get(dateTime, "toDate").ret
  ELSE Throws

\* normalizedDate of fetchEvents
EventDate(raw) ==
  LET dateTime == Field(raw, "dateTime")
      called == CallToDate(dateTime)
  IN IF ~IsNullish(called) THEN called
     ELSE IF Truthy(dateTime) /\ Get(dateTime, "seconds").t = "number"
       THEN NewDate(Plus(Times1000(Get(dateTime, "seconds").n),
                         RoundMillionth(Coalesce(Get(dateTime, "nanoseconds"),
                                                 Num(Fin(0, 0))).n)))
     ELSE Coalesce(dateTime, Null)

\* The record fetchEvents maps a document to
EventOf(d) ==
  [id |-> d.id,
   title |-> Coalesce(Field(d.data, "title"), Str(<<>>)),
   type |-> Coalesce(Field(d.data, "type"), Str(<<>>)),
   saintId |-> Coalesce(Field(d.data, "saintId"),
                 Coalesce(Field(d.data, "saint"), Null)),
   description |-> Coalesce(Field(d.data, "description"), Str(<<>>)),
   saintName |-> Coalesce(Field(d.data, "saintName"), Str(<<>>)),
   dateTime |-> EventDate(d.data),
   address |-> Coalesce(Field(d.data, "address"), Str(<<>>)),
   locationGeo |-> EventLocation(d.data)]

\* The filter that ends the map of fetchEvents
HasNumericLatitude(event) ==
  /\ Truthy(event.locationGeo)
  /\ Get(event.locationGeo, "latitude").t = "number"

\* The map throws when one document's dateTime makes it throw
EventsMapThrows(docs) ==
  \E i \in 1..Len(docs) : EventDate(docs[i].data) = Throws

EventsData(docs) ==
  SelectSeq([i \in 1..Len(docs) |-> EventOf(docs[i])], HasNumericLatitude)

\* The filter effect of the EventsScreen
FilterEvents(all, filter, query) ==
  LET byType ==
        IF filter # Str(<<"All">>)
          THEN SelectSeq(all, LAMBDA e : e.type = filter)
          ELSE all
      q == ToLowerCase(query)
  IN IF Trim(query) # <<>>
       THEN SelectSeq(byType, LAMBDA e :
              \/ Includes(ToLowerCase(TextOrEmpty(e.title)), q)
              \/ Includes(ToLowerCase(TextOrEmpty(e.saintName)), q)
              \/ Includes(ToLowerCase(TextOrEmpty(e.address)), q))
       ELSE byType

EventDoc(id, data) == [id |-> Str(id), data |-> data]

EventInstant == [iso |-> <<>>, sec |-> 1700000000, ms |-> 500, ns |-> 0]

\* Documents of the events collection
EventDocs ==
  { EventDoc(<<"e", "1">>,
      [title |-> Str(<<"R", "a", "m", " ", "K", "a", "t", "h", "a">>), type |-> Str(<<"Pravachan">>),
       saintName |-> Str(<<"S", "a", "n", "t", " ", "R", "a", "m", "e", "s", "h", " ", "D", "a", "s">>), address |-> Str(<<"J", "a", "i", "p", "u", "r">>),
       dateTime |-> EncTimestamp(EventInstant),
       locationGeo |-> LatLon(Dec(FALSE, 26, <<9, 3>>), Dec(FALSE, 75, <<8>>))]),
    EventDoc(<<"e", "2">>,
      [title |-> Str(<<"B", "h", "a", "j", "a", "n">>), type |-> Str(<<"Satsang">>),
       address |-> Str(<<"J", "a", "i", "p", "u", "r">>),
       dateTime |-> EncTimestamp(EventInstant)]),
    EventDoc(<<"e", "3">>,
      [title |-> Str(<<"J", "a", "i", "n", " ", "S", "a", "b", "h", "a">>), type |-> Str(<<"Satsang">>),
       saintName |-> Str(<<"S", "a", "n", "t", " ", "R", "a", "m", "e", "s", "h", " ", "D", "a", "s">>),
       locationGeo |-> Str(<<"2", "6", ".", "9", "3", ",", " ", "7", "5", ".", "8">>)]),
    EventDoc(<<"e", "4">>,
      [title |-> Str(<<"S", "h", "i", "v", "i", "r">>), type |-> Str(<<"Workshop">>),
       dateTime |-> Obj([toDate |-> Str(<<"S", "h", "i", "v", "i", "r">>)]),
       locationGeo |-> LatLon(Dec(FALSE, 27, <<0, 1>>), Dec(FALSE, 75, <<8>>))]),
    EventDoc(<<"e", "5">>,
      [type |-> Str(<<"Workshop">>),
       dateTime |-> EncSecNanos(EventInstant),
       locationGeo |-> Obj([_latitude |-> Num(Dec(FALSE, 27, <<3, 5>>)),
                            _longitude |-> Num(Dec(FALSE, 75, <<8>>))])]),
    EventDoc(<<"e", "6">>,
      [title |-> Str(<<"Y", "a", "t", "r", "a">>), type |-> Str(<<"Satsang">>),
       locationGeo |-> Arr(<<Num(Dec(FALSE, 27, <<0, 1>>)),
                             Str(<<"7", "5", ".", "8">>)>>)]),
    EventDoc(<<"e", "7">>,
      [title |-> Str(<<"D", "h", "y", "a", "n">>), type |-> Str(<<"Pravachan">>),
       locationGeo |-> Obj([_latitude |-> Num(Dec(FALSE, 0, <<>>)),
                            _longitude |-> Num(Dec(FALSE, 75, <<8>>))])]) }

EventStores ==
  {st \in SeqsUpTo(EventDocs, MaxDocs) :
     \A i, j \in 1..Len(st) : i # j => st[i] # st[j]}

\* The type chips of the screen: ["All", "Pravachan", "Satsang"]
EventFilters ==
  {Str(<<"All">>), Str(<<"Pravachan">>), Str(<<"Satsang">>)}

\* The mount effect has called fetchEvents and fetchSaints, each at its
\* getDocs
EvInit ==
  /\ eventStore \in EventStores
  /\ evPc = "fetch"
  /\ allEvents = <<>>
  /\ filteredEvents = <<>>
  /\ selectedFilter = Str(<<"All">>)
  /\ evSearchQuery = <<>>
  /\ evLoading = TRUE
  /\ evFilterDue = FALSE
  /\ saintsList = <<>>
  /\ saintsPc = "fetch"
  /\ FormClear
  /\ RefIdle /\ TsIdle /\ CoIdle /\ MapIdle /\ SideIdle

\* getDocs of fetchEvents resolves: the documents are mapped and filtered,
\* setAllEvents(eventsData), setFilteredEvents(eventsData) and
\* setLoading(false) are committed together and the new allEvents makes the
\* filter effect due; a throw inside the map goes to the catch
FetchEvents ==
  /\ evPc = "fetch"
  /\ ~evFilterDue
  /\ IF EventsMapThrows(eventStore)
       THEN UNCHANGED <<allEvents, filteredEvents, evFilterDue>>
       ELSE /\ allEvents' = EventsData(eventStore)
            /\ filteredEvents' = EventsData(eventStore)
            /\ evFilterDue' = TRUE
  /\ evLoading' = FALSE
  /\ evPc' = "done"
  /\ UNCHANGED <<eventStore, selectedFilter, evSearchQuery>>
  /\ UNCHANGED <<refVars, tsVars, coVars, mapVars, uiVars>>

\* getDocs of fetchEvents rejects: the catch and the finally
FetchEventsFails ==
  /\ evPc = "fetch"
  /\ ~evFilterDue
  /\ evLoading' = FALSE
  /\ evPc' = "failed"
  /\ UNCHANGED <<eventStore, allEvents, filteredEvents, selectedFilter,
                 evSearchQuery, evFilterDue>>
  /\ UNCHANGED <<refVars, tsVars, coVars, mapVars, uiVars>>

\* The filter effect of the EventsScreen, run after a commit that changed
\* selectedFilter, searchQuery or allEvents: setFilteredEvents(processedEvents)
EventFilterEffect ==
  /\ evPc # "idle"
  /\ evFilterDue
  /\ filteredEvents' = FilterEvents(allEvents, selectedFilter, evSearchQuery)
  /\ evFilterDue' = FALSE
  /\ UNCHANGED <<eventStore, evPc, allEvents, selectedFilter, evSearchQuery,
                 evLoading>>
  /\ UNCHANGED <<refVars, tsVars, coVars, mapVars, uiVars>>

\* One of the three type chips is pressed: setSelectedFilter(type)
SetSelectedFilter ==
  /\ evPc # "idle"
  /\ ~evFilterDue
  /\ \E f \in EventFilters :
       /\ selectedFilter' = f
       /\ evFilterDue' = (f # selectedFilter)
  /\ UNCHANGED <<eventStore, evPc, allEvents, filteredEvents, evSearchQuery,
                 evLoading>>
  /\ UNCHANGED <<refVars, tsVars, coVars, mapVars, uiVars>>

\* The search box of the EventsScreen changes: setSearchQuery(text)
SetEventSearchQuery ==
  /\ evPc # "idle"
  /\ ~evFilterDue
  /\ \E q \in EventSearchQueries :
       /\ evSearchQuery' = q
       /\ evFilterDue' = (q # evSearchQuery)
  /\ UNCHANGED <<eventStore, evPc, allEvents, filteredEvents, selectedFilter,
                 evLoading>>
  /\ UNCHANGED <<refVars, tsVars, coVars, mapVars, uiVars>>

\* The saints fetchSaints loaded as hosts, in the order of their names
HostSaints ==
  << [id |-> <<"s", "7">>, name |-> <<" ", "R", "a", "m", "u", " ">>],
     [id |-> <<"s", "2">>, name |-> <<"A", "c", "h", "a", "r", "y", "a", " ", "V", "i", "d", "y", "a">>] >>

\* What the query of fetchSaints can return: the saint collection ordered
\* by name, each document mapped to { id, name: data.name ?? "" }
HostLists == {<<>>, HostSaints}

\* getDocs of fetchSaints resolves: setSaintsList(arr)
FetchSaints ==
  /\ saintsPc = "fetch"
  /\ ~evFilterDue
  /\ \E arr \in HostLists : saintsList' = arr
  /\ saintsPc' = "done"
  /\ UNCHANGED <<formFields, pickerVars, evAddPc, evAddClosure>>
  /\ UNCHANGED <<refVars, tsVars, coVars, mapVars, evVars, sideVars>>

\* getDocs of fetchSaints rejects: the catch logs the error and the
\* function ends
FetchSaintsFails ==
  /\ saintsPc = "fetch"
  /\ ~evFilterDue
  /\ saintsPc' = "done"
  /\ UNCHANGED <<saintsList, formFields, pickerVars, evAddPc, evAddClosure>>
  /\ UNCHANGED <<refVars, tsVars, coVars, mapVars, evVars, sideVars>>

EvNext ==
  \/ FetchEvents
  \/ FetchEventsFails
  \/ FetchSaints
  \/ FetchSaintsFails
  \/ EventFilterEffect
  \/ SetSelectedFilter
  \/ SetEventSearchQuery

SpecEvents == EvInit /\ [][EvNext]_vars

---------------------------------------------------------------------------
(* The two list screens, each started on its own *)

ScreensInit == MapInit \/ EvInit

ScreensNext == Next \/ EvNext

SpecScreens == ScreensInit /\ [][ScreensNext]_vars

---------------------------------------------------------------------------
(* EventsScreen: the add-event form *)

MaxAddedEvents == 1

\* Texts typed into the form
TitleTexts == {<<>>, <<"K", "a", "t", "h", "a">>}
AddressTexts == {<<>>, <<"J", "a", "i", "p", "u", "r">>}
LatitudeTexts == {<<>>, <<"2", "7", ".", "0", "1">>, <<"9", "5">>, <<"+", "1", "e", "1">>}
LongitudeTexts == {<<>>, <<"7", "5", ".", "8">>}
SaintQueryTexts == {<<>>, <<"a">>, <<" ">>}

\* array.slice(0, 8)
Slice8(seq) == SubSeq(seq, 1, IF Len(seq) < 8 THEN Len(seq) ELSE 8)

\* The suggestions shown under the host field
SaintSuggestions ==
  IF showSaintSuggestions /\ Len(Trim(saintQuery)) > 0
    THEN Slice8(SelectSeq(saintsList, LAMBDA h :
                  Includes(ToLowerCase(h.name), ToLowerCase(saintQuery))))
    ELSE <<>>

\* evSaintId.includes("/") ? evSaintId : `saint/${evSaintId}`
SaintIdPath(id) ==
  IF \E i \in 1..Len(id) : id[i] = "/"
    THEN id
    ELSE <<"s", "a", "i", "n", "t", "/">> \o id

\* The checks of submitNewEvent that end it before anything is written
EventFormRejected ==
  \/ Trim(evTitle) = <<>>
  \/ Trim(evSaintId) = <<>> \/ Trim(evSaintName) = <<>>
  \/ Trim(evAddress) = <<>>
  \/ ~validateLatLon(evLatitude, evLongitude)
  \/ ~Truthy(evDate)

\* The form values submitNewEvent reads: those of the render it is called in
EventFormValues ==
  [evTitle |-> evTitle, evSaintId |-> evSaintId, evSaintName |-> evSaintName,
   evAddress |-> evAddress, evLatitude |-> evLatitude,
   evLongitude |-> evLongitude, evDate |-> evDate]

\* The instants the pickers report and the clock reads
PickedDateInstant == [iso |-> <<>>, sec |-> 1699956000, ms |-> 0, ns |-> 0]
PickedTimeInstant == [iso |-> <<>>, sec |-> 1700040315, ms |-> 250, ns |-> 0]
ClockInstant == [iso |-> <<>>, sec |-> 1700100000, ms |-> 125, ns |-> 0]

\* What the date picker and the time picker hand to onChange: the Date
\* picked, or undefined when the picker is dismissed
PickedDates == {Undef, EncDate(PickedDateInstant)}
PickedTimes == {Undef, EncDate(PickedTimeInstant)}

\* d.setHours(t.getHours(), t.getMinutes(), 0, 0) on a copy of d: the local
\* day of d with the local hour and minute of t
SetHoursOf(d, t) ==
  LET day == (d.tv.hi + LocalTZA) \div 86400
      minute == ((t.tv.hi + LocalTZA) % 86400) \div 60
  IN DateOf(Fin(day * 86400 + minute * 60 - LocalTZA, 0))

\* A Date as the collection stores and returns it: Timestamp.fromDate
TimestampOf(d) ==
  EncTimestamp([iso |-> <<>>, sec |-> d.tv.hi, ms |-> d.tv.lo \div 10,
                ns |-> 0])

\* The document submitNewEvent writes, as the collection returns it: the
\* Date comes back as a Timestamp.  The form of the model keeps the first
\* event type and an empty description.
NewEventPayload(form) ==
  [title |-> Str(Trim(form.evTitle)),
   type |-> Str(<<"Pravachan">>),
   saintId |-> Str(SaintIdPath(form.evSaintId)),
   saintName |-> Str(Trim(form.evSaintName)),
   address |-> Str(Trim(form.evAddress)),
   description |-> Str(<<>>),
   locationGeo |-> LatLon(NumberOfText(form.evLatitude),
                          NumberOfText(form.evLongitude)),
   dateTime |-> TimestampOf(form.evDate)]

\* The record the refresh of submitNewEvent maps a document to
RefreshedEventOf(d) ==
  [EventOf(d) EXCEPT !.saintId = Coalesce(Field(d.data, "saintId"), Null)]

RefreshedEventsData(docs) ==
  SelectSeq([i \in 1..Len(docs) |-> RefreshedEventOf(docs[i])], HasNumericLatitude)

\* The id the collection gives the k-th document of the model
AddedEventId(k) == Str(<<"n", <<"1", "2", "3", "4", "5", "6", "7", "8", "9">>[k]>>)

AddedEvents(docs) ==
  Cardinality({i \in 1..Len(docs) : docs[i].id \notin {d.id : d \in EventDocs}})

\* The screen has loaded its events, fetchSaints is at its getDocs and the
\* form is opened
FormInit ==
  /\ eventStore = <<CHOOSE d \in EventDocs : d.id = Str(<<"e", "1">>)>>
  /\ evPc = "form"
  /\ allEvents = EventsData(eventStore)
  /\ filteredEvents = EventsData(eventStore)
  /\ selectedFilter = Str(<<"All">>)
  /\ evSearchQuery = <<>>
  /\ evLoading = FALSE
  /\ evFilterDue = FALSE
  /\ saintsList = <<>>
  /\ saintsPc = "fetch"
  /\ FormClear
  /\ RefIdle /\ TsIdle /\ CoIdle /\ MapIdle /\ SideIdle

\* The form is shown and no effect is waiting
FormSettled == evPc = "form" /\ ~evFilterDue

SetEvTitle ==
  /\ FormSettled
  /\ \E text \in TitleTexts : evTitle' = text
  /\ UNCHANGED <<saintsList, saintsPc, pickerVars, evSaintId, evSaintName, evAddress, evLatitude,
                 evLongitude, evDate, saintQuery, showSaintSuggestions,
                 evAddPc, evAddClosure>>
  /\ UNCHANGED <<refVars, tsVars, coVars, mapVars, evVars, sideVars>>

SetEvAddress ==
  /\ FormSettled
  /\ \E text \in AddressTexts : evAddress' = text
  /\ UNCHANGED <<saintsList, saintsPc, pickerVars, evTitle, evSaintId, evSaintName, evLatitude,
                 evLongitude, evDate, saintQuery, showSaintSuggestions,
                 evAddPc, evAddClosure>>
  /\ UNCHANGED <<refVars, tsVars, coVars, mapVars, evVars, sideVars>>

SetEvLatitude ==
  /\ FormSettled
  /\ \E text \in LatitudeTexts : evLatitude' = text
  /\ UNCHANGED <<saintsList, saintsPc, pickerVars, evTitle, evSaintId, evSaintName, evAddress,
                 evLongitude, evDate, saintQuery, showSaintSuggestions,
                 evAddPc, evAddClosure>>
  /\ UNCHANGED <<refVars, tsVars, coVars, mapVars, evVars, sideVars>>

SetEvLongitude ==
  /\ FormSettled
  /\ \E text \in LongitudeTexts : evLongitude' = text
  /\ UNCHANGED <<saintsList, saintsPc, pickerVars, evTitle, evSaintId, evSaintName, evAddress,
                 evLatitude, evDate, saintQuery, showSaintSuggestions,
                 evAddPc, evAddClosure>>
  /\ UNCHANGED <<refVars, tsVars, coVars, mapVars, evVars, sideVars>>

\* The date button is pressed: setShowDatePicker(true)
ShowDatePicker ==
  /\ FormSettled
  /\ showDatePicker' = TRUE
  /\ UNCHANGED <<saintsList, saintsPc, formFields, showTimePicker, evAddPc,
                 evAddClosure>>
  /\ UNCHANGED <<refVars, tsVars, coVars, mapVars, evVars, sideVars>>

\* The time button is pressed: setShowTimePicker(true)
ShowTimePicker ==
  /\ FormSettled
  /\ showTimePicker' = TRUE
  /\ UNCHANGED <<saintsList, saintsPc, formFields, showDatePicker, evAddPc,
                 evAddClosure>>
  /\ UNCHANGED <<refVars, tsVars, coVars, mapVars, evVars, sideVars>>

\* onChangeDate: the picker is hidden; a date picked keeps the hour and the
\* minute of the date set before, if there is one
OnChangeDate ==
  /\ FormSettled
  /\ showDatePicker
  /\ showDatePicker' = FALSE
  /\ \E selected \in PickedDates :
       evDate' = IF Truthy(selected)
                   THEN IF Truthy(evDate)
                          THEN SetHoursOf(selected, evDate)
                          ELSE selected
                   ELSE evDate
  /\ UNCHANGED <<saintsList, saintsPc, showTimePicker, evTitle, evSaintId,
                 evSaintName, evAddress, evLatitude, evLongitude, saintQuery,
                 showSaintSuggestions, evAddPc, evAddClosure>>
  /\ UNCHANGED <<refVars, tsVars, coVars, mapVars, evVars, sideVars>>

\* onChangeTime: the picker is hidden; a time picked sets the hour and the
\* minute of the date set before, or of today when there is none
OnChangeTime ==
  /\ FormSettled
  /\ showTimePicker
  /\ showTimePicker' = FALSE
  /\ \E selected \in PickedTimes :
       evDate' = IF Truthy(selected)
                   THEN IF Truthy(evDate)
                          THEN SetHoursOf(evDate, selected)
                          ELSE SetHoursOf(EncDate(ClockInstant), selected)
                   ELSE evDate
  /\ UNCHANGED <<saintsList, saintsPc, showDatePicker, evTitle, evSaintId,
                 evSaintName, evAddress, evLatitude, evLongitude, saintQuery,
                 showSaintSuggestions, evAddPc, evAddClosure>>
  /\ UNCHANGED <<refVars, tsVars, coVars, mapVars, evVars, sideVars>>

\* Mutant: editing the host text keeps the id selected before.
OnSaintQueryChange_KeepsId ==
  /\ FormSettled
  /\ \E text \in SaintQueryTexts :
       /\ saintQuery' = text
       /\ evSaintName' = text
  /\ showSaintSuggestions' = TRUE
  /\ UNCHANGED <<saintsList, saintsPc, pickerVars, evSaintId, evTitle, evAddress, evLatitude,
                 evLongitude, evDate, evAddPc, evAddClosure>>
  /\ UNCHANGED <<refVars, tsVars, coVars, mapVars, evVars, sideVars>>

OnSaintQueryChange ==
  /\ FormSettled
  /\ \E text \in SaintQueryTexts :
       /\ saintQuery' = text
       /\ evSaintName' = text
  /\ showSaintSuggestions' = TRUE
  /\ evSaintId' = <<>>
  /\ UNCHANGED <<saintsList, saintsPc, pickerVars, evTitle, evAddress, evLatitude, evLongitude,
                 evDate, evAddPc, evAddClosure>>
  /\ UNCHANGED <<refVars, tsVars, coVars, mapVars, evVars, sideVars>>

\* A suggestion of the list shown is pressed
SelectSaintSuggestion ==
  /\ FormSettled
  /\ \E k \in 1..Len(SaintSuggestions) :
       /\ evSaintId' = SaintSuggestions[k].id
       /\ evSaintName' = SaintSuggestions[k].name
       /\ saintQuery' = SaintSuggestions[k].name
  /\ showSaintSuggestions' = FALSE
  /\ UNCHANGED <<saintsList, saintsPc, pickerVars, evTitle, evAddress, evLatitude, evLongitude,
                 evDate, evAddPc, evAddClosure>>
  /\ UNCHANGED <<refVars, tsVars, coVars, mapVars, evVars, sideVars>>

\* resetAddForm
FormReset ==
  /\ evTitle' = <<>> /\ evSaintId' = <<>> /\ evSaintName' = <<>>
  /\ evAddress' = <<>> /\ evLatitude' = <<>> /\ evLongitude' = <<>>
  /\ evDate' = Null /\ saintQuery' = <<>>
  /\ showSaintSuggestions' = FALSE
  /\ UNCHANGED <<saintsList, saintsPc, pickerVars>>

\* The Cancel button, disabled while an add is under way
CancelAddEvent ==
  /\ FormSettled
  /\ evAddPc = "idle"
  /\ FormReset
  /\ UNCHANGED <<evAddPc, evAddClosure>>
  /\ UNCHANGED <<refVars, tsVars, coVars, mapVars, evVars, sideVars>>

\* submitNewEvent is called (the button is disabled while an add is under
\* way): the checks, then setAdding(true) and addDoc with the payload built
\* from the form values of this render
SubmitNewEvent ==
  /\ FormSettled
  /\ evAddPc = "idle"
  /\ AddedEvents(eventStore) < MaxAddedEvents
  /\ IF EventFormRejected
       THEN UNCHANGED <<evAddPc, evAddClosure>>
       ELSE /\ evAddPc' = "addDoc"
            /\ evAddClosure' = EventFormValues
  /\ UNCHANGED <<saintsList, saintsPc, formFields, pickerVars>>
  /\ UNCHANGED <<refVars, tsVars, coVars, mapVars, evVars, sideVars>>

\* addDoc resolves: the document is in the collection; getDocs is called
EventAddDoc ==
  /\ evAddPc = "addDoc"
  /\ ~evFilterDue
  /\ eventStore' = Append(eventStore,
                     [id |-> AddedEventId(AddedEvents(eventStore) + 1),
                      data |-> NewEventPayload(evAddClosure)])
  /\ evAddPc' = "getDocs"
  /\ UNCHANGED <<evPc, allEvents, filteredEvents, selectedFilter,
                 evSearchQuery, evLoading, evFilterDue>>
  /\ UNCHANGED <<saintsList, saintsPc, formFields, pickerVars, evAddClosure>>
  /\ UNCHANGED <<refVars, tsVars, coVars, mapVars, sideVars>>

\* getDocs of the refresh resolves: both lists are set, the form is reset
\* and setAdding(false); a throw inside the map goes to the catch
EventRefresh ==
  /\ evAddPc = "getDocs"
  /\ ~evFilterDue
  /\ IF EventsMapThrows(eventStore)
       THEN UNCHANGED <<allEvents, filteredEvents, evFilterDue, saintsList,
                        saintsPc, formFields, pickerVars>>
       ELSE /\ allEvents' = RefreshedEventsData(eventStore)
            /\ filteredEvents' = RefreshedEventsData(eventStore)
            /\ evFilterDue' = TRUE
            /\ FormReset
  /\ evAddPc' = "idle"
  /\ evAddClosure' = Null
  /\ UNCHANGED <<eventStore, evPc, selectedFilter, evSearchQuery, evLoading>>
  /\ UNCHANGED <<refVars, tsVars, coVars, mapVars, sideVars>>

\* addDoc or getDocs rejects: the catch and the finally
EventAddFails ==
  /\ evAddPc \in {"addDoc", "getDocs"}
  /\ ~evFilterDue
  /\ evAddPc' = "idle"
  /\ evAddClosure' = Null
  /\ UNCHANGED <<saintsList, saintsPc, formFields, pickerVars>>
  /\ UNCHANGED <<refVars, tsVars, coVars, mapVars, evVars, sideVars>>

FormNext ==
  \/ SetEvTitle
  \/ SetEvAddress
  \/ SetEvLatitude
  \/ SetEvLongitude
  \/ ShowDatePicker
  \/ ShowTimePicker
  \/ OnChangeDate
  \/ OnChangeTime
  \/ OnSaintQueryChange
  \/ SelectSaintSuggestion
  \/ CancelAddEvent
  \/ SubmitNewEvent
  \/ EventAddDoc
  \/ EventRefresh
  \/ EventAddFails
  \/ FetchSaints
  \/ FetchSaintsFails
  \/ EventFilterEffect

SpecEventForm == FormInit /\ [][FormNext]_vars

---------------------------------------------------------------------------
(* ProfileScreen: the notification switches *)

MaxPendingSaves == 2

MaxAuthLoads == 2

NotificationKeys == {"saintLocationUpdates", "eventReminders", "newSaintsNearby"}

\* The settings of a user document as the screen creates it
DefaultSettings ==
  [k \in NotificationKeys |-> k # "newSaintsNearby"]

NoSaving == [k \in NotificationKeys |-> FALSE]

\* useState(true), useState(true), useState(false)
InitialSwitches ==
  [k \in NotificationKeys |-> k # "newSaintsNearby"]

\* The users collection holds no document of the user
NoDocument == [missing |-> TRUE]

\* notificationSettings of the user document: every key, one key only, or
\* no document at all
StoredSettingsStates ==
  [NotificationKeys -> BOOLEAN] \cup {[newSaintsNearby |-> TRUE], NoDocument}

\* settings.saintLocationUpdates ?? true, settings.eventReminders ?? true,
\* settings.newSaintsNearby ?? false
LoadedSwitches(settings) ==
  [k \in NotificationKeys |->
     IF k \in DOMAIN settings THEN settings[k] ELSE InitialSwitches[k]]

\* isVolunteer of the ProfileScreen is null until a document is read
VolunteerStates == {"null", "false", "true"}

\* !!data.isVolunteer
VolunteerStateOf(flag) == IF flag THEN "true" ELSE "false"

NoLoads == [getDoc |-> 0, setDoc |-> 0]

\* The number of handleAuthSuccess calls that are at an await
AwaitedLoads == authLoads.getDoc + authLoads.setDoc

\* The screen is rendered for the first time: authChecked is false until
\* notifPc is ready
NotifInit ==
  /\ notifPc = "mount"
  /\ signedIn \in BOOLEAN
  /\ storedSettings \in StoredSettingsStates
  /\ storedIsVolunteer \in (IF storedSettings = NoDocument
                              THEN {FALSE} ELSE BOOLEAN)
  /\ switches = InitialSwitches
  /\ savingFlags = NoSaving
  /\ pendingSaves = <<>>
  /\ showAuthModal = FALSE
  /\ authLoads = NoLoads
  /\ modalPc = "idle"
  /\ profileIsVolunteer = "null"
  /\ showVolunteerModal = FALSE
  /\ volunteerPc = "idle"
  /\ RefIdle /\ TsIdle /\ CoIdle /\ MapIdle /\ EvIdle /\ FormIdle /\ DetailIdle
  /\ VolIdle

\* The mount effect up to its getDoc; without a user it opens the AuthModal
\* and ends
NotifMount ==
  /\ notifPc = "mount"
  /\ IF ~signedIn
       THEN /\ showAuthModal' = TRUE
            /\ notifPc' = "ready"
       ELSE /\ notifPc' = "getDoc"
            /\ UNCHANGED showAuthModal
  /\ UNCHANGED <<signedIn, switches, storedSettings, storedIsVolunteer,
                 savingFlags, pendingSaves, authLoads, modalPc, volunteerVars>>
  /\ UNCHANGED exceptNotifVars

\* The getDoc of the mount effect resolves: the switches and isVolunteer are
\* set from the document, or the effect goes on to create it
NotifGetDoc ==
  /\ notifPc = "getDoc"
  /\ IF storedSettings # NoDocument
       THEN /\ switches' = LoadedSwitches(storedSettings)
            /\ profileIsVolunteer' = VolunteerStateOf(storedIsVolunteer)
            /\ notifPc' = "ready"
       ELSE /\ notifPc' = "setDoc"
            /\ UNCHANGED <<switches, profileIsVolunteer>>
  /\ UNCHANGED <<signedIn, storedSettings, storedIsVolunteer, savingFlags,
                 pendingSaves, showAuthModal, authLoads, modalPc,
                 showVolunteerModal, volunteerPc>>
  /\ UNCHANGED exceptNotifVars

\* The setDoc of the mount effect resolves
NotifSetDoc ==
  /\ notifPc = "setDoc"
  /\ storedSettings' = DefaultSettings
  /\ storedIsVolunteer' = FALSE
  /\ switches' = InitialSwitches
  /\ profileIsVolunteer' = "false"
  /\ notifPc' = "ready"
  /\ UNCHANGED <<signedIn, savingFlags, pendingSaves, showAuthModal,
                 authLoads, modalPc, showVolunteerModal, volunteerPc>>
  /\ UNCHANGED exceptNotifVars

\* The getDoc or the setDoc of the mount effect rejects: the catch and the
\* finally
NotifLoadFails ==
  /\ notifPc \in {"getDoc", "setDoc"}
  /\ notifPc' = "ready"
  /\ UNCHANGED <<signedIn, switches, storedSettings, storedIsVolunteer,
                 savingFlags, pendingSaves, showAuthModal, authLoads, modalPc,
                 volunteerVars>>
  /\ UNCHANGED exceptNotifVars

\* The session of the user ends outside the screen (the account is disabled
\* or its token revoked): auth.currentUser becomes null
SessionEnds ==
  /\ notifPc \in {"getDoc", "setDoc", "ready"}
  /\ signedIn
  /\ signedIn' = FALSE
  /\ UNCHANGED <<notifPc, switches, storedSettings, storedIsVolunteer,
                 savingFlags, pendingSaves, showAuthModal, authLoads, modalPc,
                 volunteerVars>>
  /\ UNCHANGED exceptNotifVars

\* The screen renders the AuthModal only
AuthModalShown == notifPc = "ready" /\ showAuthModal

\* The screen renders the profile with its switches
ProfileShown == notifPc = "ready" /\ ~showAuthModal

\* handleAuthSuccess up to its getDoc: the modal is hidden, and shown again
\* when there is no user
handleAuthSuccess ==
  IF signedIn'
    THEN /\ showAuthModal' = FALSE
         /\ authLoads' = [authLoads EXCEPT !.getDoc = @ + 1]
    ELSE /\ showAuthModal' = TRUE
         /\ UNCHANGED authLoads

\* handleSignIn of the AuthModal up to its await; the button is disabled
\* while loading
handleSignIn ==
  /\ AuthModalShown
  /\ modalPc = "idle"
  /\ modalPc' = "signIn"
  /\ UNCHANGED <<notifPc, signedIn, switches, storedSettings,
                 storedIsVolunteer, savingFlags, pendingSaves, showAuthModal,
                 authLoads, volunteerVars>>
  /\ UNCHANGED exceptNotifVars

\* signInWithEmailAndPassword resolves: onSuccess, and the finally
SignInResolves ==
  /\ modalPc = "signIn"
  /\ AwaitedLoads < MaxAuthLoads
  /\ signedIn' = TRUE
  /\ handleAuthSuccess
  /\ modalPc' = "idle"
  /\ UNCHANGED <<notifPc, switches, storedSettings, storedIsVolunteer,
                 savingFlags, pendingSaves, volunteerVars>>
  /\ UNCHANGED exceptNotifVars

\* signInWithEmailAndPassword rejects: the catch and the finally
SignInFails ==
  /\ modalPc = "signIn"
  /\ modalPc' = "idle"
  /\ UNCHANGED <<notifPc, signedIn, switches, storedSettings,
                 storedIsVolunteer, savingFlags, pendingSaves, showAuthModal,
                 authLoads, volunteerVars>>
  /\ UNCHANGED exceptNotifVars

\* handleSignUp of the AuthModal up to its first await
handleSignUp ==
  /\ AuthModalShown
  /\ modalPc = "idle"
  /\ modalPc' = "createUser"
  /\ UNCHANGED <<notifPc, signedIn, switches, storedSettings,
                 storedIsVolunteer, savingFlags, pendingSaves, showAuthModal,
                 authLoads, volunteerVars>>
  /\ UNCHANGED exceptNotifVars

\* createUserWithEmailAndPassword resolves, which signs the new user in;
\* handleSignUp goes on to updateProfile.  The users collection holds no
\* document of an account that has just been created.
CreateUserResolves ==
  /\ modalPc = "createUser"
  /\ storedSettings = NoDocument
  /\ signedIn' = TRUE
  /\ modalPc' = "updateProfile"
  /\ UNCHANGED <<notifPc, switches, storedSettings, storedIsVolunteer,
                 savingFlags, pendingSaves, showAuthModal, authLoads,
                 volunteerVars>>
  /\ UNCHANGED exceptNotifVars

\* createUserWithEmailAndPassword rejects: the catch and the finally
CreateUserFails ==
  /\ modalPc = "createUser"
  /\ modalPc' = "idle"
  /\ UNCHANGED <<notifPc, signedIn, switches, storedSettings,
                 storedIsVolunteer, savingFlags, pendingSaves, showAuthModal,
                 authLoads, volunteerVars>>
  /\ UNCHANGED exceptNotifVars

\* updateProfile resolves, or rejects into its own catch: handleSignUp goes
\* on to setDoc
UpdateProfileSettles ==
  /\ modalPc = "updateProfile"
  /\ modalPc' = "setDoc"
  /\ UNCHANGED <<notifPc, signedIn, switches, storedSettings,
                 storedIsVolunteer, savingFlags, pendingSaves, showAuthModal,
                 authLoads, volunteerVars>>
  /\ UNCHANGED exceptNotifVars

\* The setDoc of handleSignUp resolves: onSuccess, and the finally
SignUpDocResolves ==
  /\ modalPc = "setDoc"
  /\ signedIn => AwaitedLoads < MaxAuthLoads
  /\ storedSettings' = DefaultSettings
  /\ storedIsVolunteer' = FALSE
  /\ UNCHANGED signedIn
  /\ handleAuthSuccess
  /\ modalPc' = "idle"
  /\ UNCHANGED <<notifPc, switches, savingFlags, pendingSaves, volunteerVars>>
  /\ UNCHANGED exceptNotifVars

\* The setDoc of handleSignUp rejects: the catch alerts, the modal stays and
\* the user stays signed in
SignUpDocFails ==
  /\ modalPc = "setDoc"
  /\ modalPc' = "idle"
  /\ UNCHANGED <<notifPc, signedIn, switches, storedSettings,
                 storedIsVolunteer, savingFlags, pendingSaves, showAuthModal,
                 authLoads, volunteerVars>>
  /\ UNCHANGED exceptNotifVars

\* The getDoc of one handleAuthSuccess resolves
AuthGetDoc ==
  /\ authLoads.getDoc > 0
  /\ IF storedSettings # NoDocument
       THEN /\ switches' = LoadedSwitches(storedSettings)
            /\ profileIsVolunteer' = VolunteerStateOf(storedIsVolunteer)
            /\ authLoads' = [authLoads EXCEPT !.getDoc = @ - 1]
       ELSE /\ authLoads' = [getDoc |-> authLoads.getDoc - 1,
                             setDoc |-> authLoads.setDoc + 1]
            /\ UNCHANGED <<switches, profileIsVolunteer>>
  /\ UNCHANGED <<notifPc, signedIn, storedSettings, storedIsVolunteer,
                 savingFlags, pendingSaves, showAuthModal, modalPc,
                 showVolunteerModal, volunteerPc>>
  /\ UNCHANGED exceptNotifVars

\* The setDoc of one handleAuthSuccess resolves
AuthSetDoc ==
  /\ authLoads.setDoc > 0
  /\ storedSettings' = DefaultSettings
  /\ storedIsVolunteer' = FALSE
  /\ switches' = InitialSwitches
  /\ profileIsVolunteer' = "false"
  /\ authLoads' = [authLoads EXCEPT !.setDoc = @ - 1]
  /\ UNCHANGED <<notifPc, signedIn, savingFlags, pendingSaves, showAuthModal,
                 modalPc, showVolunteerModal, volunteerPc>>
  /\ UNCHANGED exceptNotifVars

\* The getDoc or the setDoc of one handleAuthSuccess rejects: the catch
AuthLoadFails ==
  /\ \E call \in {"getDoc", "setDoc"} :
       /\ authLoads[call] > 0
       /\ authLoads' = [authLoads EXCEPT ![call] = @ - 1]
  /\ UNCHANGED <<notifPc, signedIn, switches, storedSettings,
                 storedIsVolunteer, savingFlags, pendingSaves, showAuthModal,
                 modalPc, volunteerVars>>
  /\ UNCHANGED exceptNotifVars

\* onToggleLocation, onToggleEventReminders, onToggleNewSaints, which the
\* screen offers once authChecked is set and the AuthModal is not shown: the
\* switch is set, then updateNotificationSetting runs to its await, or
\* opens the AuthModal and returns when nobody is signed in
OnToggle ==
  /\ ProfileShown
  /\ \E key \in NotificationKeys :
       LET next == ~switches[key]
       IN /\ switches' = [switches EXCEPT ![key] = next]
          /\ IF ~signedIn
               THEN /\ showAuthModal' = TRUE
                    /\ UNCHANGED <<savingFlags, pendingSaves>>
               ELSE /\ Len(pendingSaves) < MaxPendingSaves
                    /\ savingFlags' = [savingFlags EXCEPT ![key] = TRUE]
                    /\ pendingSaves' = Append(pendingSaves, [key |-> key, value |-> next])
                    /\ UNCHANGED showAuthModal
  /\ UNCHANGED <<notifPc, signedIn, storedSettings, storedIsVolunteer,
                 authLoads, modalPc, volunteerVars>>
  /\ UNCHANGED exceptNotifVars

\* The settings after updateDoc has set notificationSettings.key
WithSetting(settings, key, value) ==
  [k \in DOMAIN settings \cup {key} |->
     IF k = key THEN value ELSE settings[k]]

\* updateDoc of the oldest save resolves, which takes a document: the finally
SaveResolves ==
  /\ pendingSaves # <<>>
  /\ storedSettings # NoDocument
  /\ LET save == Head(pendingSaves)
     IN /\ storedSettings' = WithSetting(storedSettings, save.key, save.value)
        /\ savingFlags' = [savingFlags EXCEPT ![save.key] = FALSE]
  /\ pendingSaves' = Tail(pendingSaves)
  /\ UNCHANGED <<notifPc, signedIn, switches, storedIsVolunteer,
                 showAuthModal, authLoads, modalPc, volunteerVars>>
  /\ UNCHANGED exceptNotifVars

\* updateDoc of the oldest save rejects: the catch and the finally
SaveFails ==
  /\ pendingSaves # <<>>
  /\ savingFlags' = [savingFlags EXCEPT ![Head(pendingSaves).key] = FALSE]
  /\ pendingSaves' = Tail(pendingSaves)
  /\ UNCHANGED <<notifPc, signedIn, switches, storedSettings,
                 storedIsVolunteer, showAuthModal, authLoads, modalPc,
                 volunteerVars>>
  /\ UNCHANGED exceptNotifVars

\* The Sign up button of the volunteer card, rendered unless isVolunteer is
\* true: setShowVolunteerModal(true)
OpenVolunteerModal ==
  /\ ProfileShown
  /\ profileIsVolunteer # "true"
  /\ ~showVolunteerModal
  /\ showVolunteerModal' = TRUE
  /\ UNCHANGED <<notifPc, signedIn, switches, storedSettings,
                 storedIsVolunteer, savingFlags, pendingSaves, showAuthModal,
                 authLoads, modalPc, profileIsVolunteer, volunteerPc>>
  /\ UNCHANGED exceptNotifVars

\* Cancel of the VolunteerSignupModal, disabled while submitting: onClose
CloseVolunteerModal ==
  /\ ProfileShown
  /\ showVolunteerModal
  /\ volunteerPc = "idle"
  /\ showVolunteerModal' = FALSE
  /\ UNCHANGED <<notifPc, signedIn, switches, storedSettings,
                 storedIsVolunteer, savingFlags, pendingSaves, showAuthModal,
                 authLoads, modalPc, profileIsVolunteer, volunteerPc>>
  /\ UNCHANGED exceptNotifVars

\* handleVolunteerSubmit, called by Submit of the VolunteerSignupModal, which
\* is disabled while submitting: without a user it opens the AuthModal and
\* returns, with one it runs to its addDoc
handleVolunteerSubmit ==
  /\ ProfileShown
  /\ showVolunteerModal
  /\ volunteerPc = "idle"
  /\ IF ~signedIn
       THEN /\ showAuthModal' = TRUE
            /\ UNCHANGED volunteerPc
       ELSE /\ volunteerPc' = "addDoc"
            /\ UNCHANGED showAuthModal
  /\ UNCHANGED <<notifPc, signedIn, switches, storedSettings,
                 storedIsVolunteer, savingFlags, pendingSaves, authLoads,
                 modalPc, profileIsVolunteer, showVolunteerModal>>
  /\ UNCHANGED exceptNotifVars

\* The addDoc of handleVolunteerSubmit resolves: it goes on to updateDoc
VolunteerAddDoc ==
  /\ volunteerPc = "addDoc"
  /\ volunteerPc' = "updateDoc"
  /\ UNCHANGED <<notifPc, signedIn, switches, storedSettings,
                 storedIsVolunteer, savingFlags, pendingSaves, showAuthModal,
                 authLoads, modalPc, profileIsVolunteer, showVolunteerModal>>
  /\ UNCHANGED exceptNotifVars

\* The updateDoc of handleVolunteerSubmit resolves, which takes a document:
\* isVolunteer is set, the modal is closed, and the finally
VolunteerUpdateDoc ==
  /\ volunteerPc = "updateDoc"
  /\ storedSettings # NoDocument
  /\ storedIsVolunteer' = TRUE
  /\ profileIsVolunteer' = "true"
  /\ showVolunteerModal' = FALSE
  /\ volunteerPc' = "idle"
  /\ UNCHANGED <<notifPc, signedIn, switches, storedSettings, savingFlags,
                 pendingSaves, showAuthModal, authLoads, modalPc>>
  /\ UNCHANGED exceptNotifVars

\* The addDoc or the updateDoc of handleVolunteerSubmit rejects: the catch
\* and the finally
VolunteerSubmitFails ==
  /\ volunteerPc \in {"addDoc", "updateDoc"}
  /\ volunteerPc' = "idle"
  /\ UNCHANGED <<notifPc, signedIn, switches, storedSettings,
                 storedIsVolunteer, savingFlags, pendingSaves, showAuthModal,
                 authLoads, modalPc, profileIsVolunteer, showVolunteerModal>>
  /\ UNCHANGED exceptNotifVars

NotifNext ==
  \/ NotifMount
  \/ NotifGetDoc
  \/ NotifSetDoc
  \/ NotifLoadFails
  \/ SessionEnds
  \/ handleSignIn
  \/ SignInResolves
  \/ SignInFails
  \/ handleSignUp
  \/ CreateUserResolves
  \/ CreateUserFails
  \/ UpdateProfileSettles
  \/ SignUpDocResolves
  \/ SignUpDocFails
  \/ AuthGetDoc
  \/ AuthSetDoc
  \/ AuthLoadFails
  \/ OnToggle
  \/ SaveResolves
  \/ SaveFails
  \/ OpenVolunteerModal
  \/ CloseVolunteerModal
  \/ handleVolunteerSubmit
  \/ VolunteerAddDoc
  \/ VolunteerUpdateDoc
  \/ VolunteerSubmitFails

SpecNotifications == NotifInit /\ [][NotifNext]_vars

---------------------------------------------------------------------------
(* SaintProfileScreen *)

\* Saint documents with a date of diksha and a group leader
ProfileDocs ==
  { SaintDoc(<<"s", "8">>,
      [name |-> Str(<<"M", "u", "n", "i">>),
       dateOfDiksha |-> EncTimestamp(EventInstant),
       groupLeader |-> Obj([path |-> Str(<<"s", "a", "i", "n", "t", "/", "s", "1">>)])]),
    SaintDoc(<<"s", "9">>,
      [name |-> Str(<<"R", "a", "m">>),
       dateOfDiksha |-> Obj([toDate |-> Str(<<"x">>)]),
       groupLeader |-> Str(<<"s", "1">>)]) }

ProfileStores ==
  {st \in SeqsUpTo(ProfileDocs \cup SaintDocs, 2) :
     \A i, j \in 1..Len(st) : i # j => st[i] # st[j]}

\* The route parameter: missing, a list of segments, or a text
RouteParams ==
  {Undef, Arr(<<Str(<<"s", "1">>), Str(<<"s", "8">>)>>), Str(<<>>),
   Str(<<"s", "1">>), Str(<<"s", "8">>), Str(<<"s", "9">>)}

\* !id || typeof id !== 'string'
NoRouteId(id) == ~Truthy(id) \/ id.t # "string"

\* groupLeader of the normalised record
GroupLeaderOf(raw) ==
  LET gl == Field(raw, "groupLeader")
  IN IF gl.t = "string" THEN gl
     ELSE IF Truthy(Get(gl, "path")) THEN Get(gl, "path")
     ELSE Coalesce(gl, Null)

\* dateOfDiksha of the normalised record: the expression of normalizedDate
DikshaDate(raw) == EventDate([dateTime |-> Field(raw, "dateOfDiksha")])

\* The normalised record of fetchSaintDetails
SaintDetailOf(d) ==
  [id |-> d.id,
   name |-> Coalesce(Field(d.data, "name"), Str(<<>>)),
   designation |-> Coalesce(Field(d.data, "designation"), Str(<<>>)),
   about |-> Coalesce(Field(d.data, "about"), Str(<<>>)),
   guruName |-> Coalesce(Field(d.data, "guruName"), Str(<<>>)),
   sect |-> Coalesce(Field(d.data, "sect"), Str(<<>>)),
   gender |-> Coalesce(Field(d.data, "gender"), Str(<<>>)),
   amber |-> Coalesce(Field(d.data, "amber"), Str(<<>>)),
   dateOfDiksha |-> DikshaDate(d.data),
   groupLeader |-> GroupLeaderOf(d.data)]

\* The screen is opened on a route
ProfileInit ==
  /\ saintStore \in ProfileStores
  /\ mapPc = "idle" /\ userLocation = Null
  /\ allSaints = <<>> /\ filteredSaints = <<>>
  /\ searchQuery = <<>> /\ distanceFilter = Idle
  /\ loading = FALSE /\ errorMsg = Null
  /\ filterDue = FALSE /\ addPc = "idle" /\ addClosure = Null
  /\ detailPc = "mount"
  /\ detailId \in RouteParams
  /\ detailLoading = TRUE
  /\ detailSaint = Null
  /\ RefIdle /\ TsIdle /\ CoIdle /\ EvIdle /\ FormIdle /\ NotifIdle /\ VolIdle

\* The effect runs: it returns at once without a text id, else
\* fetchSaintDetails runs to its await
ProfileMount ==
  /\ detailPc = "mount"
  /\ IF NoRouteId(detailId)
       THEN /\ detailPc' = "done"
            /\ UNCHANGED detailLoading
       ELSE /\ detailPc' = "getDoc"
            /\ detailLoading' = TRUE
  /\ UNCHANGED <<detailId, detailSaint>>
  /\ UNCHANGED exceptDetailVars

\* getDoc resolves: no such document, or the record, or a throw while the
\* record is built; then the finally
ProfileGetDoc ==
  /\ detailPc = "getDoc"
  /\ LET found == {i \in 1..Len(saintStore) : saintStore[i].id = detailId}
     IN IF found = {}
          THEN detailSaint' = Null
          ELSE LET d == saintStore[CHOOSE i \in found : TRUE]
               IN IF DikshaDate(d.data) = Throws
                    THEN detailSaint' = Null
                    ELSE detailSaint' = SaintDetailOf(d)
  /\ detailLoading' = FALSE
  /\ detailPc' = "done"
  /\ UNCHANGED detailId
  /\ UNCHANGED exceptDetailVars

\* getDoc rejects: the catch and the finally
ProfileGetDocFails ==
  /\ detailPc = "getDoc"
  /\ detailSaint' = Null
  /\ detailLoading' = FALSE
  /\ detailPc' = "done"
  /\ UNCHANGED detailId
  /\ UNCHANGED exceptDetailVars

ProfileNext == ProfileMount \/ ProfileGetDoc \/ ProfileGetDocFails

SpecSaintProfile == ProfileInit /\ [][ProfileNext]_vars

\* Every request settles and every effect runs
SpecSaintProfileLive == SpecSaintProfile /\ WF_vars(ProfileNext)

---------------------------------------------------------------------------
(* EventsScreen: the volunteer checks *)

MaxPendingChecks == 2

NoUser == "none"

Users == {"u1", "u2"}

\* What the users collection holds for a user: its isVolunteer flag, or no
\* document
UserDocStates == {"volunteer", "notVolunteer", "missing"}

\* Boolean(data?.isVolunteer) of an existing document, false without one
VolunteerFlag(docState) == docState = "volunteer"

\* The flag of the user signed in, false when nobody is
CurrentVolunteerFlag ==
  IF authUser = NoUser THEN FALSE ELSE VolunteerFlag(userDocs[authUser])

RemoveAt(seq, i) == SubSeq(seq, 1, i - 1) \o SubSeq(seq, i + 1, Len(seq))

\* The screen is rendered for the first time
VolInit ==
  /\ volPc = "mount"
  /\ authUser \in Users \cup {NoUser}
  /\ userDocs \in [Users -> UserDocStates]
  /\ isVolunteer = FALSE
  /\ checkingVolunteer = TRUE
  /\ pendingChecks = <<>>
  /\ RefIdle /\ TsIdle /\ CoIdle /\ MapIdle /\ EvIdle /\ FormIdle
  /\ NotifIdle /\ DetailIdle

\* The mount effects: the check of auth.currentUser runs to its getDoc, and
\* the auth listener is registered
VolMount ==
  /\ volPc = "mount"
  /\ IF authUser = NoUser
       THEN /\ isVolunteer' = FALSE
            /\ UNCHANGED pendingChecks
       ELSE /\ pendingChecks' = Append(pendingChecks,
                                  [user |-> authUser, listener |-> FALSE])
            /\ UNCHANGED isVolunteer
  /\ volPc' = "subscribed"
  /\ UNCHANGED <<authUser, userDocs, checkingVolunteer>>
  /\ UNCHANGED exceptVolVars

\* The callback of onAuthStateChanged up to its await, or to its end when
\* nobody is signed in
AuthCallback(user) ==
  IF user = NoUser
    THEN /\ isVolunteer' = FALSE
         /\ checkingVolunteer' = FALSE
         /\ UNCHANGED pendingChecks
    ELSE /\ checkingVolunteer' = TRUE
         /\ pendingChecks' = Append(pendingChecks,
                               [user |-> user, listener |-> TRUE])
         /\ UNCHANGED isVolunteer

\* The listener is called for the first time, with the current user
AuthFirstCallback ==
  /\ volPc = "subscribed"
  /\ Len(pendingChecks) < MaxPendingChecks
  /\ AuthCallback(authUser)
  /\ volPc' = "ready"
  /\ UNCHANGED <<authUser, userDocs>>
  /\ UNCHANGED exceptVolVars

\* Somebody signs in or out and the listener is called
AuthStateChanged ==
  /\ volPc = "ready"
  /\ Len(pendingChecks) < MaxPendingChecks
  /\ \E user \in (Users \cup {NoUser}) \ {authUser} :
       /\ authUser' = user
       /\ AuthCallback(user)
  /\ UNCHANGED <<volPc, userDocs>>
  /\ UNCHANGED exceptVolVars

\* The getDoc of one of the checks resolves; the listener's check ends with
\* its finally
CheckResolves ==
  /\ volPc \in {"subscribed", "ready"}
  /\ \E i \in 1..Len(pendingChecks) :
       /\ isVolunteer' = VolunteerFlag(userDocs[pendingChecks[i].user])
       /\ checkingVolunteer' =
            IF pendingChecks[i].listener THEN FALSE ELSE checkingVolunteer
       /\ pendingChecks' = RemoveAt(pendingChecks, i)
  /\ UNCHANGED <<volPc, authUser, userDocs>>
  /\ UNCHANGED exceptVolVars

\* The getDoc of one of the checks rejects: the catch, and the finally
CheckFails ==
  /\ volPc \in {"subscribed", "ready"}
  /\ \E i \in 1..Len(pendingChecks) :
       /\ isVolunteer' = FALSE
       /\ checkingVolunteer' =
            IF pendingChecks[i].listener THEN FALSE ELSE checkingVolunteer
       /\ pendingChecks' = RemoveAt(pendingChecks, i)
  /\ UNCHANGED <<volPc, authUser, userDocs>>
  /\ UNCHANGED exceptVolVars

\* The updateDoc of the ProfileScreen's handleVolunteerSubmit resolves for
\* the user signed in: it takes a document and sets its isVolunteer
UserDocVolunteer ==
  /\ volPc \in {"subscribed", "ready"}
  /\ authUser # NoUser
  /\ userDocs[authUser] # "missing"
  /\ userDocs' = [userDocs EXCEPT ![authUser] = "volunteer"]
  /\ UNCHANGED <<volPc, authUser, isVolunteer, checkingVolunteer,
                 pendingChecks>>
  /\ UNCHANGED exceptVolVars

\* The ProfileScreen (its mount effect, handleAuthSuccess) or the AuthModal
\* (handleSignUp) creates the missing document of the user signed in, with
\* isVolunteer false
UserDocCreated ==
  /\ volPc \in {"subscribed", "ready"}
  /\ authUser # NoUser
  /\ userDocs[authUser] = "missing"
  /\ userDocs' = [userDocs EXCEPT ![authUser] = "notVolunteer"]
  /\ UNCHANGED <<volPc, authUser, isVolunteer, checkingVolunteer,
                 pendingChecks>>
  /\ UNCHANGED exceptVolVars

VolNext ==
  \/ VolMount
  \/ AuthFirstCallback
  \/ AuthStateChanged
  \/ CheckResolves
  \/ CheckFails
  \/ UserDocVolunteer
  \/ UserDocCreated

SpecVolunteer == VolInit /\ [][VolNext]_vars

---------------------------------------------------------------------------
(* Claims about the reference normalizer *)

\* The non-empty segments of a path, in order.
NonEmptySegments(s) == SelectSeq(Split(s, "/"), LAMBDA p : p # <<>>)

\* The last non-empty '/'-separated segment, or Null when there is none.
LastNonEmptySegment(s) ==
  LET ne == NonEmptySegments(s)
  IN IF ne = <<>> THEN Null ELSE Str(ne[Len(ne)])

\* The path string a reference input is read from, or Null: the string
\* itself less one leading '/', or the string path of an object without a
\* usable id.
RefPathOf(v) ==
  IF v.t = "string"
    THEN Str(IF StartsWith(v.s, "/") THEN Slice1(v.s) ELSE v.s)
  ELSE IF v.t = "object" /\ Get(v, "path").t = "string"
          /\ ~(Get(v, "id").t = "string" /\ Len(Get(v, "id").s) > 0)
    THEN Get(v, "path")
  ELSE Null

\* C5: for every path string and every object with a string path, the
\* reference normalizer returns the last non-empty '/'-separated segment, and
\* Absent only when no segment is non-empty.
C5_LastNonEmptySegment ==
  (refOut # Pending /\ RefPathOf(refIn) # Null)
    => refOut = LastNonEmptySegment(RefPathOf(refIn).s)

---------------------------------------------------------------------------
(* Claims about the instant normalizer *)

\* The to-date method of the input fails: it throws, or what it returns is
\* not a valid date.
ToDateFails(v) ==
  /\ v.t = "object"
  /\ Get(v, "toDate").t = "function"
  /\ LET r == Get(v, "toDate").ret
     IN r.t = "throw" \/ ~ValidDate(r)

\* C4: a to-date branch that throws or yields an invalid date falls through
\* to the next applicable branch: an object whose to-date method fails and
\* that has a numeric seconds field is normalized from its seconds field.
C4_FailedToDateFallsThrough ==
  \A out \in {tsSafe, tsOrNull} :
    (out.t \notin {"pending", "idle"} /\ ToDateFails(tsIn)
       /\ Get(tsIn, "seconds").t = "number")
      => out = DateOrNull(NewDate(SecondsMs(tsIn)))

\* The count of decimal digits a finite number is written with, the sign and
\* the decimal point left out.
DigitCount(n) ==
  StringLength(n) - (IF n.hi < 0 THEN 1 ELSE 0)
                  - (IF MagLo(n) % 10 # 0 THEN 1 ELSE 0)

\* C9: a number input, negative and fractional numbers included, is taken as
\* seconds and multiplied by 1000 if and only if it has exactly 10 decimal
\* digits, and is taken as epoch milliseconds unchanged otherwise.
C9_TenDigitsAreSeconds ==
  \A out \in {tsSafe, tsOrNull} :
    (out.t \notin {"pending", "idle"} /\ tsIn.t = "number" /\ tsIn.n.k = "fin")
      => out = DateOrNull(NewDate(IF DigitCount(tsIn.n) = 10
                                    THEN Times1000(tsIn.n) ELSE tsIn.n))

\* Date d is valid and its epoch-millisecond value is within 1 ms of
\* instant i.
WithinOneMs(d, i) ==
  /\ ValidDate(d)
  /\ d.tv.lo % 10 = 0
  /\ d.tv.hi - i.sec \in {-1, 0, 1}
  /\ LET delta == (d.tv.hi - i.sec) * 1000 + (d.tv.lo \div 10) - i.ms
     IN delta \in {0, 1} \/ (delta = -1 /\ i.ns = 0)

\* C10: for one instant given as a to-date-method object, a {seconds,
\* nanoseconds} object, a 10-digit seconds number, a 13-digit millisecond
\* number, a Date or an ISO string, the instant normalizer returns the
\* epoch-millisecond value of that instant within 1 ms.
C10_EncodingsAgree ==
  \A out \in {tsSafe, tsOrNull} :
    (out.t \notin {"pending", "idle"} /\ tsInstant \in Instants)
      => WithinOneMs(out, tsInstant)

\* C10 witness: a 10-digit seconds number has been normalized, and to the
\* date that the ISO string, the {seconds, nanoseconds} object and the Date
\* of the same instant give.
C10_Witness ==
  /\ tsInstant \in Instants
  /\ tsIn = EncSecNumber(tsInstant)
  /\ tsSafe.t = "date" /\ tsOrNull = tsSafe
  /\ tsSafe = toDateSafe(EncIso(tsInstant))
  /\ tsSafe = toDateSafe(EncSecNanos(tsInstant))
  /\ tsSafe = EncDate(tsInstant)

\* A date whose time value is a whole, finite number of milliseconds
ValidInstant(v) ==
  /\ v.t = "date"
  /\ \/ v.tv.k = "fin" /\ v.tv.lo % 10 = 0
     \/ v.tv.k = "far"

\* C11: the instant normalizer returns Absent for null, undefined and a
\* string that is not a date, and every present value it returns, for every
\* input, is a valid instant.
C11_AbsentOrValidInstant ==
  \A out \in {tsSafe, tsOrNull} :
    out.t \notin {"pending", "idle"}
      => /\ (tsIn \in {Null, Undef, Str(NotADate), Str(<<>>)} => out = Null)
         /\ (out # Null => ValidInstant(out))

\* C11 witness: the string "not a date" has been normalized to Absent by
\* both normalizers.
C11_Witness ==
  /\ tsIn = Str(NotADate)
  /\ tsSafe = Null /\ tsOrNull = Null
  /\ ~ValidDate(NewDate(DateParse(tsIn.s)))

---------------------------------------------------------------------------
(* Claims about the coordinate normalizer *)

\* The digits of a fraction are all zero.
RECURSIVE AllZero(_)
AllZero(ds) == ds = <<>> \/ (ds[1] = 0 /\ AllZero(Tail(ds)))

\* A coordinate number is finite and its magnitude is at most bound.
WithinBound(n, bound) ==
  /\ n.k = "dec"
  /\ \/ BigCompare(n.int, NatDigits(bound)) < 0
     \/ (n.int = NatDigits(bound) /\ AllZero(n.frac))

\* A pair is inside the coordinate domain.
InDomain(c) ==
  /\ WithinBound(Get(c, "latitude").n, 90)
  /\ WithinBound(Get(c, "longitude").n, 180)

\* C2: the coordinate normalizer never returns a present coordinate outside
\* the domain: a recovered pair with latitude outside [-90, 90], longitude
\* outside [-180, 180] or a non-finite member yields Absent.
C2_ResultInDomain ==
  coOut.t = "object" => InDomain(coOut)

---------------------------------------------------------------------------
(* Claims about the saint list of the MapScreen *)

Range(seq) == {seq[i] : i \in 1..Len(seq)}

DistancePresent(rec) == ~IsNullish(Field(rec, "distance"))

\* The distance of a record is a finite number
DistanceFinite(rec) ==
  Field(rec, "distance").t = "number" /\ Field(rec, "distance").n.k = "dec"

\* The distance of a record is present and strictly greater than max
BeyondMax(rec, max) ==
  /\ DistanceFinite(rec)
  /\ DecCompare(Field(rec, "distance").n, max.n) > 0

\* C1: with a finite maximum distance and no text query, once the filter
\* effect has run a record of the list whose distance is absent or a finite
\* number is dropped if and only if its distance is present and strictly
\* greater than the maximum; a record with an absent distance is kept.
C1_AbsentDistanceKept ==
  (mapPc = "done" /\ ~filterDue /\ distanceFilter.n.k # "inf"
     /\ Trim(searchQuery) = <<>>)
    => \A r \in Range(allSaints) :
         (~DistancePresent(r) \/ DistanceFinite(r))
           => ((r \notin Range(filteredSaints)) <=> BeyondMax(r, distanceFilter))

\* The first of the six source keys that holds a value
CoordinateKeys ==
  <<"coordinates", "locationGeo", "coords", "location", "coordinatesText",
    "locationText">>

PresentKeys(raw) ==
  {i \in 1..Len(CoordinateKeys) : ~IsNullish(Field(raw, CoordinateKeys[i]))}

FirstPresentKey(raw) ==
  CoordinateKeys[CHOOSE i \in PresentKeys(raw) : \A j \in PresentKeys(raw) : i <= j]

\* The coordinate the claim gives a document: the value under the first
\* present key normalized, Absent when no key is present or it fails
CoordinateByPriority(raw) ==
  IF PresentKeys(raw) = {} THEN Undef
  ELSE Coalesce(parseCoordinatesFlexible(raw[FirstPresentKey(raw)]), Undef)

\* C6: the initial fetch gives every document of the collection a record
\* whose coordinate is the value under the first present source key
\* normalized, and Absent when that value does not parse, whatever the
\* lower-priority keys hold.
C6_FirstPresentKeyWins ==
  [][(mapPc = "docs" /\ mapPc' = "done" /\ errorMsg' = Null)
       => \A i \in 1..Len(saintStore) :
            \E r \in Range(allSaints') :
              /\ r.id = saintStore[i].id
              /\ r.parsedCoordinates = CoordinateByPriority(saintStore[i].data)]_vars

\* C6 witness: after a successful initial fetch a record whose first present
\* key (location) does not parse has no coordinate although its
\* coordinatesText parses.
C6_Witness ==
  /\ mapPc = "done" /\ errorMsg = Null /\ loading = FALSE
  /\ \E r \in Range(allSaints) :
       /\ PresentKeys(r) # {}
       /\ FirstPresentKey(r) = "location"
       /\ parseCoordinatesFlexible(r.location) = Null
       /\ parseCoordinatesFlexible(Field(r, "coordinatesText")) # Null
       /\ r.parsedCoordinates = Undef
       /\ r.distance = Undef

\* Position of the document of a record in the collection
StoreIndex(rec) == CHOOSE i \in 1..Len(saintStore) : saintStore[i].id = rec.id

\* a comes strictly before b by distance: a record without a distance
\* comes after every record that bears one, and of two distances the
\* smaller number comes first (NaN is smaller than no number)
StrictlyNearer(a, b) ==
  /\ DistancePresent(a)
  /\ DistancePresent(b)
       => /\ DistanceFinite(a) /\ DistanceFinite(b)
          /\ DecCompare(a.distance.n, b.distance.n) < 0

\* Two records of equal distance: both without one, or the same number
SameDistance(a, b) ==
  \/ ~DistancePresent(a) /\ ~DistancePresent(b)
  \/ /\ DistanceFinite(a) /\ DistanceFinite(b)
     /\ DecCompare(a.distance.n, b.distance.n) = 0

\* A list in the order of the claim: no record comes after one it is
\* strictly nearer than, and records of equal distance are in the order of
\* their documents
OrderedByDistance(list) ==
  \A i, j \in 1..Len(list) :
    i < j => /\ ~StrictlyNearer(list[j], list[i])
             /\ (SameDistance(list[i], list[j])
                   => StoreIndex(list[i]) < StoreIndex(list[j]))

IsSubsequence(sub, seq) ==
  sub = SelectSeq(seq, LAMBDA r : r \in Range(sub))

\* C7: the saint list is ascending by distance with the absent-distance
\* records after every record that bears a distance, records of equal
\* distance (the absent ones included) are in the order of their documents,
\* and the filtered list keeps the order of the list; the list the older
\* MapScreen loads from the same collection is in that order too.
C7_SortedStableOrder ==
  /\ OrderedByDistance(allSaints)
  /\ IsSubsequence(filteredSaints, allSaints)
  /\ OrderedByDistance(OlderSaintsData(saintStore, DeviceLocation))

\* One of name, location, designation holds the lower-cased query
SaintTextMatches(rec, q) ==
  \E k \in {"name", "location", "designation"} :
    /\ Field(rec, k).t = "string"
    /\ Includes(ToLowerCase(Field(rec, k).s), ToLowerCase(q))

\* C8: with a non-empty query and no distance bound, once the filter effect
\* has run a saint record is kept if and only if the lower-cased query is a
\* substring of its lower-cased name, location or designation.
C8_SaintTextFields ==
  (mapPc = "done" /\ ~filterDue /\ Trim(searchQuery) # <<>>
     /\ distanceFilter.n.k = "inf")
    => \A r \in Range(allSaints) :
         (r \in Range(filteredSaints)) <=> SaintTextMatches(r, searchQuery)


---------------------------------------------------------------------------
(* Claims about record assembly *)

\* C3: once the events are fetched every document of the collection has a
\* record in the list, whatever its coordinate or date field holds.
C3_EveryDocumentYieldsRecord ==
  evPc = "done" =>
    \A i \in 1..Len(eventStore) :
      \E e \in Range(allEvents) : e.id = eventStore[i].id

---------------------------------------------------------------------------
(* Claims about the alias pairs and the string branch *)

AliasPairs ==
  <<[lat |-> "latitude", lon |-> "longitude"], [lat |-> "lat", lon |-> "lng"],
    [lat |-> "_latitude", lon |-> "_longitude"], [lat |-> "_lat", lon |-> "_long"]>>

\* The alias pairs of an object whose two members are both numbers
CompletePairs(obj) ==
  {i \in 1..Len(AliasPairs) :
     /\ Get(obj, AliasPairs[i].lat).t = "number"
     /\ Get(obj, AliasPairs[i].lon).t = "number"}

\* The first complete alias pair of an object, Absent when it has none
FirstCompletePair(obj) ==
  IF CompletePairs(obj) = {} THEN Null
  ELSE LET i == CHOOSE i \in CompletePairs(obj) :
                  \A j \in CompletePairs(obj) : i <= j
       IN Obj([latitude |-> Get(obj, AliasPairs[i].lat),
               longitude |-> Get(obj, AliasPairs[i].lon)])

\* C12: for an object input the coordinate normalizer returns the first alias
\* pair whose two members are both numbers, never a latitude and a longitude
\* of different pairs, and Absent when no pair is complete.
C12_FirstCompleteAliasPair ==
  (coOut.t \notin {"pending", "idle"} /\ coIn.t = "object")
    => coOut = FirstCompletePair(coIn)

CoordinateMarkers == DegreeSigns \cup HemisphereLetters \cup Parentheses

\* The string with the degree signs, hemisphere letters and parentheses
\* stripped
Stripped(str) == RemoveChars(Trim(str), CoordinateMarkers)

\* The first two tokens of a split are both numeric: each holds a number
TwoNumericTokens(parts) ==
  /\ Len(parts) >= 2
  /\ MatchAll(parts[1]) # <<>>
  /\ MatchAll(parts[2]) # <<>>

PairOfTokens(parts) ==
  LatLon(ParseFloatToken(MatchAll(parts[1])[1]),
         ParseFloatToken(MatchAll(parts[2])[1]))

\* The pair the claim gives a string: the markers are stripped, then the
\* pair comes from the comma split, else from the whitespace split, else
\* from the first two numeric substrings of the stripped string, else it
\* is Absent
PairOfString(str) ==
  LET s == Stripped(str)
  IN IF TwoNumericTokens(Split(s, ",")) THEN PairOfTokens(Split(s, ","))
     ELSE IF TwoNumericTokens(SplitSpaces(s, 1, <<>>))
       THEN PairOfTokens(SplitSpaces(s, 1, <<>>))
     ELSE IF Len(MatchAll(s)) >= 2
       THEN LatLon(ParseFloatToken(MatchAll(s)[1]), ParseFloatToken(MatchAll(s)[2]))
     ELSE Null

DegreesExample == <<"2", "6", ".", "9", "°", " ", "N", ",", " ", "7", "5", ".", "8", "°", " ", "E">>
BracketExample == <<"[", "2", "6", ".", "5", "5", "°", " ", "N", ",", " ", "7", "6", ".", "4", "9", "°", " ", "E", "]">>
PlainExample == <<"2", "4", ".", "8", ",", "8", "0", ".", "0">>

\* C13: for a string input the markers are stripped, then the pair comes
\* from the comma split when it gives two numeric tokens, else from the
\* whitespace split, else from the first two numeric substrings of the
\* stripped string; the result is Absent exactly when fewer than two numeric
\* substrings are recoverable from it; the three example strings give
\* {26.9, 75.8}, {26.55, 76.49} and {24.8, 80}.
C13_StringBranch ==
  (coOut.t \notin {"pending", "idle"} /\ coIn.t = "string")
    => /\ coOut = PairOfString(coIn.s)
       /\ (coOut = Null) <=> (Len(MatchAll(Stripped(coIn.s))) < 2)
       /\ coIn.s = DegreesExample
            => coOut = LatLon(Dec(FALSE, 26, <<9>>), Dec(FALSE, 75, <<8>>))
       /\ coIn.s = BracketExample
            => coOut = LatLon(Dec(FALSE, 26, <<5, 5>>), Dec(FALSE, 76, <<4, 9>>))
       /\ coIn.s = PlainExample
            => coOut = LatLon(Dec(FALSE, 24, <<8>>), Dec(FALSE, 80, <<>>))

---------------------------------------------------------------------------
(* Further claims about the reference normalizer *)

\* C14: a present result of the reference normalizer never contains the
\* path separator, for an object with a string id, an object with a string
\* path, and a plain string.
C14_NoSeparatorInResult ==
  refOut.t = "string" => "/" \notin Range(refOut.s)

HasStringId(v) ==
  v.t = "object" /\ Get(v, "id").t = "string" /\ Get(v, "id").s # <<>>

\* C15: an object's non-empty string id is the result whatever its path
\* holds; "saint/abc123" and "/saint/abc123" give "abc123", {path:
\* "users/xyz"} and {id: "xyz"} give "xyz"; null, undefined and the empty
\* string give Absent.
C15_PriorityAndExamples ==
  refOut.t \notin {"pending", "idle"}
    => /\ HasStringId(refIn) => refOut = Get(refIn, "id")
       /\ refIn \in {Str(SaintPathExample), Str(<<"/">> \o SaintPathExample)}
            => refOut = Str(<<"a", "b", "c", "1", "2", "3">>)
       /\ refIn \in {Obj([path |-> Str(UserPathExample)]), Obj([id |-> Str(IdExample)])}
            => refOut = Str(IdExample)
       /\ refIn \in {Null, Undef, Str(<<>>)} => refOut = Null

\* C15 witness: a reference with an id and a path of another last segment
\* has been normalized to its id.
C15_Witness ==
  /\ refIn = Obj([id |-> Str(IdExample), path |-> Str(SaintPathExample)])
  /\ refOut = Str(IdExample)
  /\ LastOr(Split(SaintPathExample, "/"), Null) # refOut

---------------------------------------------------------------------------
(* Claims about exceptions *)

\* The results of the scalar normalizers
ScalarResults == {refOut, tsSafe, tsOrNull, coOut}

\* C16: the instant, coordinate and reference normalizers never throw: for
\* every input, an object whose to-date method throws included, each has
\* returned a present canonical value or Absent.
C16_NormalizersNeverThrow ==
  \A out \in ScalarResults :
    /\ out # Throws
    /\ out.t \notin {"pending", "idle"}
         => out = Null \/ out.t \in {"date", "object", "string"}

\* C16 witness: an object whose to-date method throws has been normalized
\* to Absent by both instant normalizers.
C16_Witness ==
  /\ tsIn = Obj([toDate |-> Fn(Throws)])
  /\ tsSafe = Null /\ tsOrNull = Null

\* The document holds a coordinate pair the events screen recognises
HasNumericLocation(d) ==
  LET geo == Field(d.data, "locationGeo")
  IN Get(geo, "latitude").t = "number" /\ Get(geo, "longitude").t = "number"

\* C17: assembling the records never throws: once the events are fetched,
\* every document with a recognised coordinate has its record in the list,
\* whatever the date field of any document holds.
C17_AssemblyNeverAborts ==
  evPc = "done" =>
    \A i \in 1..Len(eventStore) :
      HasNumericLocation(eventStore[i])
        => \E e \in Range(allEvents) : e.id = eventStore[i].id

\* The text members of a saint record that default to the empty text
DefaultedTextFields == {"name", "designation", "about", "guruName", "sect"}

\* C18: in every record of the saint list each text member that the
\* document lacks holds its default, the empty text.
C18_AbsentFieldsDefaulted ==
  mapPc = "done" =>
    \A r \in Range(allSaints) :
      \A k \in DefaultedTextFields :
        IsNullish(Field(saintStore[StoreIndex(r)].data, k))
          => Field(r, k) = Str(<<>>)

\* C19: when the location permission is denied the saint list is still
\* produced: once the screen has settled every stored document has a record
\* in the list, and that record has no distance.
C19_ListWithoutOrigin ==
  (mapPc = "done" /\ errorMsg = PermissionDenied /\ userLocation = Null)
    => \A i \in 1..Len(saintStore) :
         \E r \in Range(allSaints) :
           r.id = saintStore[i].id /\ ~DistancePresent(r)

\* C20: the refresh after a successful add, made with a user location,
\* sets the list that the initial load builds from the same documents and
\* the same user location.
C20_RefreshEqualsInitialLoad ==
  [][(addPc = "getDocs" /\ filterDue' /\ addClosure.userLocation # Null)
       => allSaints' =
            SortByDistance(MappedSaints(saintStore, addClosure.userLocation))]_vars

---------------------------------------------------------------------------
(* Claims about the filters and the forms *)

\* C21: the text filter works with the trimmed query: once the filter
\* effect has run, the filtered event list for the query typed is the
\* filtered list for the trimmed query.
C21_QueryTrimmed ==
  (evPc = "done" /\ ~evFilterDue) =>
    filteredEvents = FilterEvents(allEvents, selectedFilter, Trim(evSearchQuery))

\* A step that changes the search text, the distance bound or the type filter
FilterChanged ==
  \/ searchQuery' # searchQuery
  \/ distanceFilter' # distanceFilter
  \/ evSearchQuery' # evSearchQuery
  \/ selectedFilter' # selectedFilter

\* A run of a filter effect
FilterEffectRan ==
  \/ filterDue /\ ~filterDue'
  \/ evFilterDue /\ ~evFilterDue'

\* C22: a change of the search text, the distance bound or the event type,
\* and the filter effect that follows it, leave the master lists as the last
\* fetch set them; once the effect has run the filtered list is the filter
\* of the master list, and it is the master list itself when the query is
\* blank and no bound or type is selected.
C22_MasterListKept ==
  /\ [][(FilterChanged \/ FilterEffectRan)
         => (allSaints' = allSaints /\ allEvents' = allEvents)]_vars
  /\ []((mapPc # "idle" /\ ~filterDue) =>
          /\ filteredSaints = FilterSaints(allSaints, distanceFilter, searchQuery)
          /\ IsSubsequence(filteredSaints, allSaints)
          /\ (Trim(searchQuery) = <<>> /\ distanceFilter = Num(Infinity)
                => filteredSaints = allSaints))
  /\ []((evPc # "idle" /\ ~evFilterDue) =>
          /\ filteredEvents = FilterEvents(allEvents, selectedFilter, evSearchQuery)
          /\ IsSubsequence(filteredEvents, allEvents)
          /\ (Trim(evSearchQuery) = <<>> /\ selectedFilter = Str(<<"All">>)
                => filteredEvents = allEvents))

\* C22 witness: the saint list is loaded with two records or more and a
\* search text has cut the filtered list down.
C22_Witness ==
  /\ mapPc = "done"
  /\ ~filterDue
  /\ Len(allSaints) >= 2
  /\ searchQuery # <<>>
  /\ filteredSaints # <<>>
  /\ Len(filteredSaints) < Len(allSaints)

\* C23: every record of the saint list has the id of a document of the
\* collection, one record for each document id, and its distance and parsed
\* coordinate are the computed ones, whatever members the document has.
C23_RecordIdentity ==
  (mapPc = "done" /\ errorMsg = Null /\ Len(allSaints) = Len(saintStore))
    => \A i \in 1..Len(saintStore) :
         \E r \in Range(allSaints) :
           /\ r.id = saintStore[i].id
           /\ Field(r, "parsedCoordinates") =
                Coalesce(parseCoordinatesFlexible(CoordinateCandidate(saintStore[i].data)),
                         Undef)

\* The raw locationGeo holds two numbers in one of the three shapes
RawCoordinateNumeric(geo) ==
  \/ Get(geo, "latitude").t = "number" /\ Get(geo, "longitude").t = "number"
  \/ Get(geo, "_latitude").t = "number" /\ Get(geo, "_longitude").t = "number"
  \/ geo.t = "array" /\ At(geo, 0).t = "number" /\ At(geo, 1).t = "number"

\* C24: once the events are fetched without a failure, every event of the
\* list has a numeric latitude and a numeric longitude, and every document
\* whose raw coordinate is numeric, zero included, has its event in the list.
C24_NumericCoordinateKept ==
  (evPc = "done" /\ ~EventsMapThrows(eventStore))
    => /\ \A e \in Range(allEvents) :
            /\ Get(e.locationGeo, "latitude").t = "number"
            /\ Get(e.locationGeo, "longitude").t = "number"
       /\ \A i \in 1..Len(eventStore) :
            RawCoordinateNumeric(Field(eventStore[i].data, "locationGeo"))
              => \E e \in Range(allEvents) : e.id = eventStore[i].id

\* C25: the two reference helpers agree on every input: formatDocRef gives
\* the identifier exactly when extractId gives it, and 'Not available'
\* exactly when extractId gives null.
C25_HelpersAgree ==
  (refOut # Pending /\ refDoc # Pending /\ refOut # Idle)
    => IF refOut = Null THEN refDoc = NotAvailable ELSE refDoc = refOut

\* Both coordinate inputs are non-blank numeric text within the ranges
CoordinateTextValid(latS, lonS) ==
  /\ Trim(latS) # <<>>
  /\ Trim(lonS) # <<>>
  /\ validateLatLon(latS, lonS)

\* C26: submitNewEvent writes an event only when the latitude and the
\* longitude inputs it was called with are both non-blank numeric text
\* within their ranges.
C26_EventCoordinatesValidated ==
  [][eventStore' # eventStore
       => CoordinateTextValid(evAddClosure.evLatitude,
                              evAddClosure.evLongitude)]_vars

\* The host of the list that the form has selected
SelectedHosts ==
  {k \in 1..Len(saintsList) : saintsList[k].id = evSaintId}

\* C29: whenever the form holds a saint id, the id is the id of a host of
\* the list and the name field and the host text hold that host's name; so
\* every event written carries the path of a host chosen from the
\* suggestions and that host's name, trimmed.
C29_HostSelection ==
  /\ [](evSaintId # <<>> =>
          \E k \in SelectedHosts :
            /\ evSaintName = saintsList[k].name
            /\ saintQuery = saintsList[k].name)
  /\ [][eventStore' # eventStore =>
          LET written == eventStore'[Len(eventStore')].data
          IN \E k \in 1..Len(saintsList) :
               /\ written.saintId = Str(SaintIdPath(saintsList[k].id))
               /\ written.saintName = Str(Trim(saintsList[k].name))]_vars

\* C29 witness: an event has been written from the form and a host is
\* selected again.
C29_Witness ==
  /\ evPc = "form"
  /\ evAddPc = "idle"
  /\ AddedEvents(eventStore) = 1
  /\ evSaintId # <<>>
  /\ evSaintName # <<>>

---------------------------------------------------------------------------
(* Claims about the profile screen *)

\* The save of a switch ends with updateDoc rejected: the oldest save is the
\* save of key, the document stays as it is, and no later save of the key
\* is awaited
SaveOfKeyFailed(key) ==
  /\ pendingSaves # <<>>
  /\ Head(pendingSaves).key = key
  /\ pendingSaves' = Tail(pendingSaves)
  /\ storedSettings' = storedSettings
  /\ \A i \in 1..Len(pendingSaves') : pendingSaves'[i].key # key

\* The toggle behind the oldest save started from the value the document
\* holds for the key, and the screen shows its switches with no reload of
\* them awaited
ToggledFromStored(key) ==
  /\ key \in DOMAIN storedSettings
  /\ Head(pendingSaves).value # storedSettings[key]
  /\ ProfileShown /\ AwaitedLoads = 0

\* C27: when the save of a switch that was toggled from its persisted value
\* has failed, the switch shows the value the document holds for it, the
\* last one persisted, and its saving flag is false.
C27_SwitchesMatchStore ==
  [][\A key \in NotificationKeys :
       (SaveOfKeyFailed(key) /\ ToggledFromStored(key))
         => /\ switches'[key] = storedSettings'[key]
            /\ ~savingFlags'[key]]_vars

\* C28: on the saint profile screen the loading flag eventually becomes
\* false, whatever the route parameter and the outcome of the request.
C28_LoadingEnds == <>(detailPc # "idle" /\ ~detailLoading)

\* C30: once the auth listener has been called and no volunteer check is
\* awaited, the screen is not checking any more, and it shows the volunteer
\* controls only if the user signed in is a volunteer.
C30_VolunteerOfCurrentUser ==
  (volPc = "ready" /\ pendingChecks = <<>>)
    => /\ ~checkingVolunteer
       /\ (isVolunteer => CurrentVolunteerFlag)

=============================================================================
